---- MODULE Spec2Model ----
(***************************************************************************)
(* labman: the node daemon's endpoint registry, its control loop and the   *)
(* OpenAI-compatible proxy, the metrics endpoint and the Portman           *)
(* WebSocket fabric, modelled from the Rust sources.                       *)
(*                                                                         *)
(* Option<T> is modelled as a sequence of length at most one:              *)
(* None == <<>>, Some(x) == <<x>>.  Strings that the code inspects         *)
(* character by character (model ids, glob patterns) are sequences of      *)
(* one-character strings.                                                  *)
(***************************************************************************)
EXTENDS Naturals, Integers, Sequences, FiniteSets, Bags, TLC

VARIABLES
    cfg,                \* LabmanConfig.endpoints, in configuration order
    iter_order,         \* iteration order of the `endpoints` HashMap
    healthy,            \* EndpointEntry.healthy, per endpoint name
    discovered_models,  \* EndpointEntry.discovered_models, per endpoint name
    active_requests,    \* EndpointEntry.active_requests, per endpoint name
    consecutive_failures, \* EndpointEntry.endpoint.consecutive_failures, per name
    model_index,        \* EndpointRegistry.model_index: model id -> names
    lock,               \* holder of the registry's tokio Mutex
    pass_pc,            \* pass in progress: "none" | "health" | "discover"
    pass_cursor,        \* position in iter_order of the endpoint awaited
    pass_owner,         \* "startup" | "periodic": who runs the pass
    probe,              \* upstream's answer to the health probe of this pass
    disc,               \* upstream's answer to the discovery of this pass
    metrics_log,        \* recorder calls made by the pass (current or last)
    task_pc,            \* periodic task: "unspawned" | "select" | "tick" | "stopped"
    daemon,             \* run_server_blocking: "startup" | "serving" | "exited"
    reqs,               \* proxy requests being handled (a bag of records)
    client_body,        \* Option: JSON body a client POSTs to the proxy
    upstream_body,      \* Option: what the proxy did with it
    subscribers,        \* PortmanSubscribers.connections: id -> agent_id
    next_id,            \* PortmanSubscribers.next_id
    observers,          \* Observers.inner: connection id -> ObserverState
    senders,            \* Observers.senders: connection id -> channel
    obs,                \* /observe connections: state, id, channel contents
    agent,              \* /agent connections: state, id, frames, replies
    cli,                \* Cli: the daemon's command line
    conf,               \* what the configuration file holds
    main,               \* main(): position, exit status, what it printed
    tasks,              \* the three server tasks of run_server_blocking
    arg,                \* Option: input of a registry function under check
    ret                 \* Option: what the function returned

regVars  == <<cfg, iter_order, healthy, discovered_models, active_requests,
             consecutive_failures, model_index>>
passVars == <<lock, pass_pc, pass_cursor, pass_owner, probe, disc, metrics_log>>
procVars == <<task_pc, daemon>>
bodyVars == <<client_body, upstream_body>>
wsVars   == <<subscribers, next_id, observers, senders, obs, agent>>
mainVars == <<cli, conf, main, tasks>>
fnVars   == <<arg, ret>>
vars     == <<regVars, passVars, procVars, reqs, bodyVars, wsVars, mainVars, fnVars>>

None    == <<>>
Some(x) == <<x>>

----------------------------------------------------------------------------
(* Inputs: model ids, glob patterns, configurations.                       *)

G4 == <<"g", "4">>
L3 == <<"l", "3">>
X9 == <<"x", "9">>

ModelIds == {G4, L3, X9}

EndpointConfig(n, cap, inc, exc) ==
    [name |-> n, max_concurrent |-> cap, models_include |-> inc, models_exclude |-> exc]

CfgEmpty == <<>>
CfgPlain == << EndpointConfig("a", Some(1), None, None),
               EndpointConfig("b", None, None, None) >>
CfgGlobs == << EndpointConfig("a", Some(0), Some(<< <<"g", "*">> >>), None),
               EndpointConfig("b", Some(2), None, Some(<< <<"*", "3">> >>)) >>

Configs == {CfgEmpty, CfgPlain, CfgGlobs}

Names(c) == {c[i].name : i \in DOMAIN c}

ConfigOf(n) == cfg[CHOOSE i \in DOMAIN cfg : cfg[i].name = n]

(* A HashMap iterates its keys in an order fixed by its hasher's random    *)
(* seed: any permutation of the keys.                                      *)
Orders(S) == {s \in [1..Cardinality(S) -> S] : \A x \in S : \E i \in DOMAIN s : s[i] = x}

----------------------------------------------------------------------------
(* glob_match                                                              *)

RECURSIVE SplitStar(_)
SplitStar(p) ==
    IF \E i \in DOMAIN p : p[i] = "*"
    THEN LET i == CHOOSE j \in DOMAIN p : p[j] = "*" /\ \A k \in 1..(j - 1) : p[k] # "*"
         IN  <<SubSeq(p, 1, i - 1)>> \o SplitStar(SubSeq(p, i + 1, Len(p)))
    ELSE <<p>>

StartsWith(t, s) == Len(s) <= Len(t) /\ SubSeq(t, 1, Len(s)) = s
EndsWith(t, s)   == Len(s) <= Len(t) /\ SubSeq(t, Len(t) - Len(s) + 1, Len(t)) = s

(* str::find: the 0-based offset of the first occurrence, as an Option.    *)
Find(t, s) ==
    LET offs == {i \in 0..(Len(t) - Len(s)) : Len(s) <= Len(t) /\ SubSeq(t, i + 1, i + Len(s)) = s}
    IN  IF offs = {} THEN None
        ELSE Some(CHOOSE i \in offs : \A j \in offs : i <= j)

RECURSIVE MatchMiddle(_, _, _)
(* The loop over parts[1..len-1]: the remainder left, or "nomatch".        *)
MatchMiddle(parts, k, remainder) ==
    IF k > Len(parts) - 1 THEN Some(remainder)
    ELSE LET idx == Find(remainder, parts[k])
         IN  IF idx = None THEN None
             ELSE MatchMiddle(parts, k + 1,
                     SubSeq(remainder, idx[1] + Len(parts[k]) + 1, Len(remainder)))

(* Mutant: the text after the prefix is not cut off, so the suffix may     *)
(* overlap the prefix.                                                     *)
glob_match_overlapping(pattern, text) ==
    IF pattern = <<"*">> THEN TRUE
    ELSE LET parts == SplitStar(pattern)
         IN  IF Len(parts) = 1 THEN pattern = text
             ELSE IF ~StartsWith(text, parts[1]) THEN FALSE
             ELSE LET mid  == MatchMiddle(parts, 2, text)
                      last == parts[Len(parts)]
                  IN  IF mid = None THEN FALSE
                      ELSE IF last # <<>> /\ ~EndsWith(mid[1], last) THEN FALSE
                      ELSE TRUE

glob_match(pattern, text) ==
    IF pattern = <<"*">> THEN TRUE
    ELSE LET parts == SplitStar(pattern)
         IN  IF Len(parts) = 1 THEN pattern = text
             ELSE IF ~StartsWith(text, parts[1]) THEN FALSE
             ELSE LET rem0 == SubSeq(text, Len(parts[1]) + 1, Len(text))
                      mid  == MatchMiddle(parts, 2, rem0)
                      last == parts[Len(parts)]
                  IN  IF mid = None THEN FALSE
                      ELSE IF last # <<>> /\ ~EndsWith(mid[1], last) THEN FALSE
                      ELSE TRUE

----------------------------------------------------------------------------
(* EndpointRegistry                                                        *)

EmptyIndex == [id \in {} |-> <<>>]

from_config(c) ==
    [ healthy           |-> [n \in Names(c) |-> FALSE],
      discovered_models |-> [n \in Names(c) |-> <<>>],
      active_requests   |-> [n \in Names(c) |-> 0],
      consecutive_failures |-> [n \in Names(c) |-> 0],
      model_index       |-> EmptyIndex ]

(* Mutant: a model that matches an include pattern is kept whatever the    *)
(* exclude patterns say.                                                   *)
ApplyFiltersIncludeWins(n, list) ==
    LET inc  == ConfigOf(n).models_include
        exc  == ConfigOf(n).models_exclude
        Inc(m) == inc = None \/ \E i \in DOMAIN inc[1] : glob_match(inc[1][i], m.id)
        Exc(m) == exc # None /\ \E i \in DOMAIN exc[1] : glob_match(exc[1][i], m.id)
    IN  SelectSeq(list, LAMBDA m : (inc # None /\ Inc(m)) \/ ~Exc(m))

(* The models an endpoint keeps of an upstream list: include, then exclude. *)
ApplyFilters(n, list) ==
    LET inc  == ConfigOf(n).models_include
        exc  == ConfigOf(n).models_exclude
        Inc(m) == inc = None \/ \E i \in DOMAIN inc[1] : glob_match(inc[1][i], m.id)
        Exc(m) == exc # None /\ \E i \in DOMAIN exc[1] : glob_match(exc[1][i], m.id)
    IN  SelectSeq(SelectSeq(list, Inc), LAMBDA m : ~Exc(m))

RECURSIVE IndexNames(_, _, _)
(* The names pushed for model `id`, endpoints taken in iteration order     *)
(* from position i on: one push per occurrence in discovered_models.       *)
IndexNames(dm, id, i) ==
    IF i > Len(iter_order) THEN <<>>
    ELSE LET n    == iter_order[i]
             hits == SelectSeq(dm[n], LAMBDA m : m.id = id)
         IN  [k \in 1..Len(hits) |-> n] \o IndexNames(dm, id, i + 1)

(* Mutant: the index is not cleared before it is filled.                   *)
rebuild_without_clear(dm) ==
    LET ids == UNION {{dm[n][k].id : k \in DOMAIN dm[n]} : n \in DOMAIN dm}
    IN  [id \in ids \cup DOMAIN model_index |->
            IF id \in ids THEN IndexNames(dm, id, 1) ELSE model_index[id]]

(* Mutant: only the healthy endpoints' models are indexed.                 *)
rebuild_healthy_only(dm) ==
    LET dh  == [n \in DOMAIN dm |-> IF healthy[n] THEN dm[n] ELSE <<>>]
        ids == UNION {{dh[n][k].id : k \in DOMAIN dh[n]} : n \in DOMAIN dh}
    IN  [id \in ids |-> IndexNames(dh, id, 1)]

rebuild_model_index(dm) ==
    LET ids == UNION {{dm[n][k].id : k \in DOMAIN dm[n]} : n \in DOMAIN dm}
    IN  [id \in ids |-> IndexNames(dm, id, 1)]


(* Mutant: the first listed name, whatever its health.                     *)
select_first_listed(model_id) ==
    IF model_id \notin DOMAIN model_index THEN None
    ELSE Some(model_index[model_id][1])

(* Option<endpoint name>: the first name of model_index[model_id] whose    *)
(* entry exists and is healthy.                                            *)
select_endpoint_for_model(model_id) ==
    IF model_id \notin DOMAIN model_index THEN None
    ELSE LET names == model_index[model_id]
             ok    == {i \in DOMAIN names : names[i] \in DOMAIN healthy /\ healthy[names[i]]}
         IN  IF ok = {} THEN None
             ELSE Some(names[CHOOSE i \in ok : \A j \in ok : i <= j])

RECURSIVE UniqueModels(_, _, _)
(* The loop of to_node_capabilities from endpoint i, model k on, with      *)
(* `acc` the models pushed so far: a model is pushed when its id is new.   *)
UniqueModels(i, k, acc) ==
    IF i > Len(iter_order) THEN acc
    ELSE LET dm == discovered_models[iter_order[i]]
         IN  IF k > Len(dm) THEN UniqueModels(i + 1, 1, acc)
             ELSE IF \E j \in DOMAIN acc : acc[j].id = dm[k].id
                  THEN UniqueModels(i, k + 1, acc)
                  ELSE UniqueModels(i, k + 1, Append(acc, dm[k]))

(* usize, scaled down to UsizeBits bits so that sums reach usize::MAX.     *)
UsizeBits == 3
UsizeMax  == 2^UsizeBits - 1

(* Mutant: the sum wraps around.                                           *)
wrapping_add(a, b) == (a + b) % (UsizeMax + 1)

saturating_add(a, b) == IF a + b > UsizeMax THEN UsizeMax ELSE a + b

(* `.filter_map(|e| e.meta.max_concurrent).reduce(saturating_add)` from    *)
(* endpoint i of the iteration on.                                         *)
RECURSIVE SumCaps(_)
SumCaps(i) ==
    IF i > Len(iter_order) THEN None
    ELSE LET cap  == ConfigOf(iter_order[i]).max_concurrent
             rest == SumCaps(i + 1)
         IN  IF cap = None THEN rest
             ELSE IF rest = None THEN cap
             ELSE Some(saturating_add(cap[1], rest[1]))

to_node_capabilities ==
    [ models                  |-> UniqueModels(1, 1, <<>>),
      endpoint_count          |-> Cardinality(DOMAIN healthy),
      max_concurrent_requests |-> SumCaps(1) ]

----------------------------------------------------------------------------
(* Upstream behaviour (inputs of the passes).                              *)

ModelDescriptor(id, owner) == [id |-> id, owned_by |-> owner]

UpstreamLists(n) ==
    { <<>>,
      <<ModelDescriptor(G4, n)>>,
      <<ModelDescriptor(G4, n), ModelDescriptor(L3, n)>> }

HealthOutcomes    == {"2xx", "non2xx", "error"}
DiscoveryFailures == {"parse_error", "non2xx", "error"}

Event(by, call, endpoint, label) ==
    [by |-> by, call |-> call, endpoint |-> endpoint, label |-> label]

----------------------------------------------------------------------------
(* Before any client has POSTed a body.                                    *)
BodyIdle == client_body = None /\ upstream_body = None

(* The /observe and /agent connections the model follows.                  *)
ObsConns   == {"o1", "o2"}
AgentConns == {"p1"}
AllAgentConns == AgentConns \cup {"p2"}

(* handle_observer_connection: `subscribers.len() as u64 + 1_000_000`.     *)
ObserverIdBase == 1000000

(* run_portman_ws_server: both registries empty, nobody connected.         *)
WsStart ==
    /\ subscribers = [i \in {} |-> None]
    /\ next_id = 0
    /\ observers = [i \in {} |-> None]
    /\ senders = [i \in {} |-> None]
    /\ obs = [c \in ObsConns |->
                [state |-> "idle", id |-> 0, queue |-> <<>>, want |-> None, mark |-> 0,
                 pending |-> None]]
    /\ agent = [a \in AllAgentConns |->
                [state |-> "idle", id |-> 0, pc |-> "recv", frames |-> <<>>, replies |-> <<>>]]

(* The daemon's servers, and main() inside run_server_blocking after a     *)
(* start without flags from a valid configuration.                         *)
Servers == {"admin", "proxy", "portman"}

Cli(print_config, check_config, bind_addr) ==
    [print_config |-> print_config, check_config |-> check_config, bind_addr |-> bind_addr]

Conf(load, disable_metrics) == [load |-> load, disable_metrics |-> disable_metrics]

Main(pc, exit_code, printed, started, shutdown_tx, result) ==
    [pc |-> pc, exit_code |-> exit_code, printed |-> printed, started |-> started,
     shutdown_tx |-> shutdown_tx, result |-> result]

MainStart ==
    /\ cli = Cli(FALSE, FALSE, "none")
    /\ conf = Conf("ok", FALSE)
    /\ main = Main("run", None, FALSE, TRUE, "unsent", "none")
    /\ tasks = [s \in Servers |-> "pending"]

(* No registry function is under check.                                    *)
FnIdle == arg = None /\ ret = None

(* Initial state: the registry as from_config builds it, in                *)
(* run_server_blocking before the initial pass.                            *)

InitWith(configs) ==
    /\ cfg \in configs
    /\ iter_order \in Orders(Names(cfg))
    /\ healthy = from_config(cfg).healthy
    /\ discovered_models = from_config(cfg).discovered_models
    /\ active_requests = from_config(cfg).active_requests
    /\ consecutive_failures = from_config(cfg).consecutive_failures
    /\ model_index = from_config(cfg).model_index
    /\ lock = "free"
    /\ pass_pc = "none"
    /\ pass_cursor = 0
    /\ pass_owner = "startup"
    /\ probe = [n \in Names(cfg) |-> "none"]
    /\ disc = [n \in Names(cfg) |-> "none"]
    /\ metrics_log = <<>>
    /\ task_pc = "unspawned"
    /\ daemon = "startup"
    /\ reqs = EmptyBag

Init == InitWith(Configs) /\ BodyIdle /\ WsStart /\ MainStart /\ FnIdle

----------------------------------------------------------------------------
(* The control loop's pass: health_check_all_http, then                    *)
(* discover_models_all_http, under the registry lock.                      *)

N == Len(iter_order)

(* The next position >= c whose endpoint is healthy under h, N + 1 if none: *)
(* discovery `continue`s over unhealthy endpoints without awaiting.        *)
NextHealthy(h, c) ==
    LET at == {i \in c..N : h[iter_order[i]]}
    IN  IF at = {} THEN N + 1 ELSE CHOOSE i \in at : \A j \in at : i <= j

(* disc with the endpoints at positions from..(to - 1) marked skipped.     *)
MarkSkipped(d, from, to) ==
    [n \in DOMAIN d |->
        IF \E i \in from..(to - 1) : iter_order[i] = n THEN "skipped" ELSE d[n]]

(* The shutdown future run_server_blocking hands to                        *)
(* spawn_periodic_health_check is `async {}`: ready when first polled.     *)
LoopShutdownReady == TRUE

(* What follows the pass's `Ok(())`: the index is rebuilt from dm, the     *)
(* guard is dropped; the startup pass goes on to spawn the periodic task   *)
(* and the servers, the periodic task goes back to its select!.            *)
CompletePass(dm) ==
    /\ model_index' = rebuild_model_index(dm)
    /\ lock' = "free"
    /\ pass_pc' = "none"
    /\ pass_cursor' = 0
    /\ task_pc' = "select"
    /\ daemon' = "serving"

(* Discovery resumes at position c of the iteration (after the health pass *)
(* or after an endpoint's discovery), with d the outcomes so far.          *)
ContinueDiscovery(c, d, dm) ==
    LET nxt == NextHealthy(healthy', c)
    IN  /\ disc' = MarkSkipped(d, c, nxt)
        /\ IF nxt <= N
           THEN /\ pass_pc' = "discover"
                /\ pass_cursor' = nxt
                /\ UNCHANGED <<model_index, lock, task_pc, daemon>>
           ELSE CompletePass(dm)

(* Mutant: the pass runs without holding the registry lock.                *)
BeginPassUnlocked(owner) ==
    /\ lock = "free"
    /\ pass_pc = "none"
    /\ pass_owner' = owner
    /\ probe' = [n \in DOMAIN probe |-> "none"]
    /\ metrics_log' = <<>>
    /\ UNCHANGED <<cfg, iter_order, consecutive_failures, healthy, discovered_models, active_requests, reqs>>
    /\ IF N = 0
       THEN /\ disc' = disc
            /\ CompletePass(discovered_models)
       ELSE /\ lock' = "free"
            /\ pass_pc' = "health"
            /\ pass_cursor' = 1
            /\ disc' = [n \in DOMAIN disc |-> "none"]
            /\ task_pc' = IF owner = "periodic" THEN "tick" ELSE task_pc
            /\ UNCHANGED <<model_index, daemon>>

BeginPass(owner) ==
    /\ lock = "free"
    /\ pass_pc = "none"
    /\ pass_owner' = owner
    /\ probe' = [n \in DOMAIN probe |-> "none"]
    /\ metrics_log' = <<>>
    /\ UNCHANGED <<cfg, iter_order, consecutive_failures, healthy, discovered_models, active_requests, reqs>>
    /\ IF N = 0
       THEN /\ disc' = disc
            /\ CompletePass(discovered_models)
       ELSE /\ lock' = "loop"
            /\ pass_pc' = "health"
            /\ pass_cursor' = 1
            /\ disc' = [n \in DOMAIN disc |-> "none"]
            /\ task_pc' = IF owner = "periodic" THEN "tick" ELSE task_pc
            /\ UNCHANGED <<model_index, daemon>>

(* run_server_blocking: the initial pass, before any server is spawned.    *)
StartupPass ==
    /\ daemon = "startup"
    /\ task_pc = "unspawned"
    /\ BeginPass("startup")

(* spawn_periodic_health_check: the ticker branch of select!.              *)
Tick ==
    /\ daemon = "serving"
    /\ task_pc = "select"
    /\ BeginPass("periodic")

(* spawn_periodic_health_check: the shutdown branch of select!.            *)
LoopShutdown ==
    /\ daemon = "serving"
    /\ task_pc = "select"
    /\ LoopShutdownReady
    /\ task_pc' = "stopped"
    /\ UNCHANGED <<regVars, passVars, daemon, reqs>>


(* Mutant: a non-2xx answer recorded as a transport error.                 *)
HealthEventOneKind(n, outcome) ==
    IF outcome = "2xx" THEN Event("health", "record_request_end", n, "success")
    ELSE Event("health", "record_error", n, "health_http_error")

HealthEvent(n, outcome) ==
    CASE outcome = "2xx"    -> Event("health", "record_request_end", n, "success")
      [] outcome = "non2xx" -> Event("health", "record_error", n, "health_http_status")
      [] outcome = "error"  -> Event("health", "record_error", n, "health_http_error")


(* Mutant: any HTTP answer counts as healthy.                              *)
HealthyOnAnyAnswer(outcome) == outcome # "error"

HealthyAfterProbe(outcome) == outcome = "2xx"

(* health_check_all_http: the probe of the endpoint at the cursor answers. *)
HealthProbe(outcome) ==
    /\ daemon \in {"startup", "serving"}
    /\ pass_pc = "health"
    /\ LET n == iter_order[pass_cursor]
       IN  /\ healthy' = [healthy EXCEPT ![n] = HealthyAfterProbe(outcome)]
           /\ probe' = [probe EXCEPT ![n] = outcome]
           /\ metrics_log' = Append(metrics_log, HealthEvent(n, outcome))
    /\ UNCHANGED <<cfg, iter_order, consecutive_failures, discovered_models, active_requests, pass_owner, reqs>>
    /\ IF pass_cursor < N
       THEN /\ pass_cursor' = pass_cursor + 1
            /\ UNCHANGED <<model_index, lock, pass_pc, disc, task_pc, daemon>>
       ELSE ContinueDiscovery(1, disc, discovered_models)

DiscoveryEvent(n, outcome) ==
    CASE outcome = "list"        -> Event("discovery", "record_request_end", n, "success")
      [] outcome = "parse_error" -> Event("discovery", "record_error", n, "model_discovery_parse")
      [] outcome = "non2xx"      -> Event("discovery", "record_error", n, "model_discovery_http_status")
      [] outcome = "error"       -> Event("discovery", "record_error", n, "model_discovery_error")

(* Mutant: an endpoint whose discovery fails loses its models.             *)
DiscoverResponseForgets(outcome, list) ==
    /\ daemon \in {"startup", "serving"}
    /\ pass_pc = "discover"
    /\ LET n  == iter_order[pass_cursor]
           dm == IF outcome = "list"
                 THEN [discovered_models EXCEPT ![n] = ApplyFilters(n, list)]
                 ELSE [discovered_models EXCEPT ![n] = <<>>]
       IN  /\ discovered_models' = dm
           /\ metrics_log' = Append(metrics_log, DiscoveryEvent(n, outcome))
           /\ UNCHANGED <<cfg, iter_order, consecutive_failures, healthy, active_requests, pass_owner, probe, reqs>>
           /\ ContinueDiscovery(pass_cursor + 1, [disc EXCEPT ![n] = outcome], dm)

(* discover_models_all_http: the /models request of the endpoint at the    *)
(* cursor answers (`list` is the parsed body when outcome = "list").       *)
DiscoverResponse(outcome, list) ==
    /\ daemon \in {"startup", "serving"}
    /\ pass_pc = "discover"
    /\ LET n  == iter_order[pass_cursor]
           dm == IF outcome = "list"
                 THEN [discovered_models EXCEPT ![n] = ApplyFilters(n, list)]
                 ELSE discovered_models
       IN  /\ discovered_models' = dm
           /\ metrics_log' = Append(metrics_log, DiscoveryEvent(n, outcome))
           /\ UNCHANGED <<cfg, iter_order, consecutive_failures, healthy, active_requests, pass_owner, probe, reqs>>
           /\ ContinueDiscovery(pass_cursor + 1, [disc EXCEPT ![n] = outcome], dm)

(* A server task of run_server_blocking finishes (bind or accept error):   *)
(* block_on returns and the runtime is dropped with every task on it.      *)
ServerExit ==
    /\ daemon = "serving"
    /\ daemon' = "exited"
    /\ UNCHANGED <<regVars, passVars, task_pc, reqs>>

Next ==
    \/ StartupPass /\ UNCHANGED <<bodyVars, wsVars, mainVars, fnVars>>
    \/ Tick /\ UNCHANGED <<bodyVars, wsVars, mainVars, fnVars>>
    \/ LoopShutdown /\ UNCHANGED <<bodyVars, wsVars, mainVars, fnVars>>
    \/ (\E o \in HealthOutcomes : HealthProbe(o)) /\ UNCHANGED <<bodyVars, wsVars, mainVars, fnVars>>
    \/ /\ pass_pc = "discover"
       /\ \E l \in UpstreamLists(iter_order[pass_cursor]) : DiscoverResponse("list", l)
       /\ UNCHANGED <<bodyVars, wsVars, mainVars, fnVars>>
    \/ (\E o \in DiscoveryFailures : DiscoverResponse(o, <<>>)) /\ UNCHANGED <<bodyVars, wsVars, mainVars, fnVars>>
    \/ ServerExit /\ UNCHANGED <<bodyVars, wsVars, mainVars, fnVars>>

Spec == Init /\ [][Next]_vars

----------------------------------------------------------------------------
(* The proxy: get_models and post_chat_completions.  A request being       *)
(* handled is a record; `reqs` is the bag of them.  `log` is the recorder  *)
(* calls the handler made for it, `upstream` whether it POSTed upstream.   *)

MaxReqs == 2

Request(kind, pc, model, stream, ep, status, data, log) ==
    [kind |-> kind, pc |-> pc, model |-> model, stream |-> stream, ep |-> ep,
     status |-> status, data |-> data, log |-> log]

Put(b, r)  == b (+) SetToBag({r})
Take(b, r) == b (-) SetToBag({r})


(* Mutant: selection takes a slot without looking at the cap.              *)
ActiveAfterSelectInc(n) == [active_requests EXCEPT ![n] = @ + 1]

(* active_requests once the handler has selected endpoint n: the handler   *)
(* only reads the name and the base URL of the entry.                      *)
ActiveAfterSelect(n) == active_requests

(* active_requests once the handler has left, by any exit, a request that  *)
(* it sent to endpoint n.                                                  *)
ActiveAfterExit(n) == active_requests

(* A client's request reaches its handler, which awaits the registry lock. *)
ReqArrive(kind, model, stream) ==
    /\ daemon = "serving"
    /\ BagCardinality(reqs) < MaxReqs
    /\ reqs' = Put(reqs, Request(kind, "locking", model, stream, None, 0, <<>>, <<>>))
    /\ UNCHANGED <<regVars, passVars, procVars>>

(* get_models: lock, snapshot, unlock, record, respond 200.                *)
GetModels(r) ==
    /\ daemon = "serving"
    /\ BagIn(r, reqs) /\ r.kind = "models" /\ r.pc = "locking"
    /\ lock = "free"
    /\ reqs' = Put(Take(reqs, r),
                 [r EXCEPT !.pc = "done", !.status = 200,
                           !.data = to_node_capabilities.models,
                           !.log = <<Event("proxy", "record_request_end", "proxy", "success")>>])
    /\ UNCHANGED <<regVars, passVars, procVars>>


(* Mutant: the 400 is returned without recording the error.                *)
NotFoundResponseSilent(r) == [r EXCEPT !.pc = "done", !.status = 400]

(* The handler's exit when selection returns None: record_error, then     *)
(* Err(BAD_REQUEST).                                                       *)
NotFoundResponse(r) ==
    [r EXCEPT !.pc = "done", !.status = 400,
              !.log = <<Event("proxy", "record_error", "-", "model_not_found")>>]

(* post_chat_completions up to `send().await`: lock, select, unlock.       *)
ChatSelect(r) ==
    /\ daemon = "serving"
    /\ BagIn(r, reqs) /\ r.kind = "chat" /\ r.pc = "locking"
    /\ lock = "free"
    /\ LET sel == select_endpoint_for_model(r.model)
       IN  IF sel = None
           THEN /\ reqs' = Put(Take(reqs, r), NotFoundResponse(r))
                /\ UNCHANGED active_requests
           ELSE /\ reqs' = Put(Take(reqs, r), [r EXCEPT !.pc = "sending", !.ep = sel])
                /\ active_requests' = ActiveAfterSelect(sel[1])
    /\ UNCHANGED <<cfg, iter_order, consecutive_failures, healthy, discovered_models, model_index, passVars, procVars>>

(* Mutant: a failed send also marks the endpoint unhealthy.                *)
ChatSendErrorMarksUnhealthy(r) ==
    /\ daemon = "serving"
    /\ BagIn(r, reqs) /\ r.pc = "sending"
    /\ reqs' = Put(Take(reqs, r),
                 [r EXCEPT !.pc = "done", !.status = 502,
                           !.log = <<Event("proxy", "record_error", r.ep[1], "upstream_request_error")>>])
    /\ healthy' = [healthy EXCEPT ![r.ep[1]] = FALSE]
    /\ UNCHANGED <<cfg, iter_order, consecutive_failures, active_requests, discovered_models, model_index, passVars, procVars>>

(* `send().await` fails: 502.                                              *)
ChatSendError(r) ==
    /\ daemon = "serving"
    /\ BagIn(r, reqs) /\ r.pc = "sending"
    /\ reqs' = Put(Take(reqs, r),
                 [r EXCEPT !.pc = "done", !.status = 502,
                           !.log = <<Event("proxy", "record_error", r.ep[1], "upstream_request_error")>>])
    /\ active_requests' = ActiveAfterExit(r.ep[1])
    /\ UNCHANGED <<cfg, iter_order, consecutive_failures, healthy, discovered_models, model_index, passVars, procVars>>

RequestEnd(r, status) ==
    Event("proxy", "record_request_end", r.ep[1],
          IF status \in 200..299 THEN "success" ELSE "failure")

(* The upstream answers with `status`.  A streaming request records        *)
(* request_end and returns the response, whose body is the upstream's      *)
(* byte stream; a buffered one goes on to read the body.                   *)
ChatResponse(r, status) ==
    /\ daemon = "serving"
    /\ BagIn(r, reqs) /\ r.pc = "sending"
    /\ IF r.stream
       THEN reqs' = Put(Take(reqs, r),
                      [r EXCEPT !.pc = "streaming", !.status = status,
                                !.log = <<RequestEnd(r, status)>>])
       ELSE reqs' = Put(Take(reqs, r), [r EXCEPT !.pc = "reading", !.status = status])
    /\ UNCHANGED <<regVars, passVars, procVars>>

(* `bytes().await` of a buffered request returns: the body, or an error.   *)
ChatBody(r, ok) ==
    /\ daemon = "serving"
    /\ BagIn(r, reqs) /\ r.pc = "reading"
    /\ IF ok
       THEN reqs' = Put(Take(reqs, r), [r EXCEPT !.pc = "done", !.log = <<RequestEnd(r, r.status)>>])
       ELSE reqs' = Put(Take(reqs, r),
                      [r EXCEPT !.pc = "done", !.status = 502,
                                !.log = <<Event("proxy", "record_error", r.ep[1], "upstream_body_read_error")>>])
    /\ active_requests' = ActiveAfterExit(r.ep[1])
    /\ UNCHANGED <<cfg, iter_order, consecutive_failures, healthy, discovered_models, model_index, passVars, procVars>>

(* The streamed body ends: the upstream finished or the client went away.  *)
ChatStreamEnd(r) ==
    /\ daemon = "serving"
    /\ BagIn(r, reqs) /\ r.pc = "streaming"
    /\ reqs' = Put(Take(reqs, r), [r EXCEPT !.pc = "done"])
    /\ active_requests' = ActiveAfterExit(r.ep[1])
    /\ UNCHANGED <<cfg, iter_order, consecutive_failures, healthy, discovered_models, model_index, passVars, procVars>>

(* The client has its complete response; the connection task ends.         *)
ReqClose(r) ==
    /\ BagIn(r, reqs) /\ r.pc = "done"
    /\ reqs' = Take(reqs, r)
    /\ UNCHANGED <<regVars, passVars, procVars>>

ProxyConfigs     == {CfgEmpty, CfgPlain}
ProxyModels      == {G4, X9}
UpstreamStatuses == {200, 500}

ProxyInit == InitWith(ProxyConfigs) /\ BodyIdle /\ WsStart /\ MainStart /\ FnIdle

ProxyNext ==
    \/ StartupPass /\ UNCHANGED <<bodyVars, wsVars, mainVars, fnVars>>
    \/ Tick /\ UNCHANGED <<bodyVars, wsVars, mainVars, fnVars>>
    \/ LoopShutdown /\ UNCHANGED <<bodyVars, wsVars, mainVars, fnVars>>
    \/ (\E o \in {"2xx", "non2xx"} : HealthProbe(o)) /\ UNCHANGED <<bodyVars, wsVars, mainVars, fnVars>>
    \/ /\ pass_pc = "discover"
       /\ DiscoverResponse("list", <<ModelDescriptor(G4, iter_order[pass_cursor])>>)
       /\ UNCHANGED <<bodyVars, wsVars, mainVars, fnVars>>
    \/ (\E m \in ProxyModels, s \in BOOLEAN : ReqArrive("chat", m, s)) /\ UNCHANGED <<bodyVars, wsVars, mainVars, fnVars>>
    \/ ReqArrive("models", <<>>, FALSE) /\ UNCHANGED <<bodyVars, wsVars, mainVars, fnVars>>
    \/ (\E r \in BagToSet(reqs) : GetModels(r)) /\ UNCHANGED <<bodyVars, wsVars, mainVars, fnVars>>
    \/ (\E r \in BagToSet(reqs) : ChatSelect(r)) /\ UNCHANGED <<bodyVars, wsVars, mainVars, fnVars>>
    \/ (\E r \in BagToSet(reqs) : ChatSendError(r)) /\ UNCHANGED <<bodyVars, wsVars, mainVars, fnVars>>
    \/ (\E r \in BagToSet(reqs), st \in UpstreamStatuses : ChatResponse(r, st)) /\ UNCHANGED <<bodyVars, wsVars, mainVars, fnVars>>
    \/ (\E r \in BagToSet(reqs), ok \in BOOLEAN : ChatBody(r, ok)) /\ UNCHANGED <<bodyVars, wsVars, mainVars, fnVars>>
    \/ (\E r \in BagToSet(reqs) : ChatStreamEnd(r)) /\ UNCHANGED <<bodyVars, wsVars, mainVars, fnVars>>
    \/ (\E r \in BagToSet(reqs) : ReqClose(r)) /\ UNCHANGED <<bodyVars, wsVars, mainVars, fnVars>>

ProxySpec == ProxyInit /\ [][ProxyNext]_vars

(* Tokio runs a handler that can go on: one waiting for the registry lock  *)
(* runs once the lock is free.  Nothing makes an upstream answer.          *)
FairProxySpec ==
    /\ ProxySpec
    /\ WF_vars((\E r \in BagToSet(reqs) : GetModels(r)) /\ UNCHANGED <<bodyVars, wsVars, mainVars, fnVars>>)
    /\ WF_vars((\E r \in BagToSet(reqs) : ChatSelect(r)) /\ UNCHANGED <<bodyVars, wsVars, mainVars, fnVars>>)

----------------------------------------------------------------------------
(* The metrics endpoint (labman-server) and the JSON extractor of the      *)
(* chat handler.                                                           *)

(* PrometheusMetricsRecorder::record_error / record_request_end: the label *)
(* values of the counter a recorder call increments.                       *)
EndpointLabel(e) == IF e.endpoint = "-" THEN "_unknown" ELSE e.endpoint

Sample(e) ==
    IF e.call = "record_error"
    THEN <<"labman_errors_total", EndpointLabel(e), e.label>>
    ELSE <<"labman_requests_total", EndpointLabel(e), e.label>>

(* A recorder's counters after the calls `events`: label values -> count.  *)
Counters(events) ==
    [k \in {Sample(events[i]) : i \in DOMAIN events} |->
        Cardinality({i \in DOMAIN events : Sample(events[i]) = k})]

(* PrometheusMetricsRecorder::new: a fresh registry, no sample yet.        *)
PrometheusMetricsRecorder == Counters(<<>>)

(* AppState::new: the state of the /metrics route holds a recorder of its  *)
(* own, built there; the `metrics` argument is stored and never read.      *)
AppState(metrics) == [prometheus |-> PrometheusMetricsRecorder, metrics |-> metrics]

(* prometheus_http_response: the samples of the registry it is given.      *)
prometheus_http_response(registry) ==
    [status |-> 200, data |-> {<<k, registry[k]>> : k \in DOMAIN registry}]

(* metrics_handler, for a build with and without the `prometheus` feature. *)
metrics_handler(state, feature) ==
    IF feature THEN prometheus_http_response(state.prometheus)
    ELSE [status |-> 501, data |-> {}]

(* The recorder calls made through the shared recorder for the requests    *)
(* now in the bag, one sequence per request.                               *)
RECURSIVE BagLogs(_)
BagLogs(b) ==
    IF BagToSet(b) = {} THEN <<>>
    ELSE LET r == CHOOSE x \in BagToSet(b) : TRUE
         IN  r.log \o BagLogs(Take(b, r))

(* The calls made through LabmanServer::metrics_recorder that the state    *)
(* still shows: those of the pass and of the requests in the bag.          *)
SharedRecorderCalls == metrics_log \o BagLogs(reqs)

(* GET /metrics is answered.                                               *)
MetricsScrape(feature) ==
    /\ daemon = "serving"
    /\ BagCardinality(reqs) < MaxReqs
    /\ LET resp == metrics_handler(AppState(SharedRecorderCalls), feature)
       IN  reqs' = Put(reqs, Request("metrics", "done", <<>>, FALSE, None,
                                     resp.status, resp.data, <<>>))
    /\ UNCHANGED <<regVars, passVars, procVars>>

(* axum's Json extractor rejects the body before post_chat_completions is  *)
(* entered: 400 for a syntax error, 422 for JSON of the wrong shape (no    *)
(* string `model`), 415 without a JSON content type.                       *)
JsonRejectionStatus(defect) ==
    CASE defect = "syntax"       -> 400
      [] defect = "data"         -> 422
      [] defect = "content_type" -> 415

JsonDefects == {"syntax", "data", "content_type"}

JsonRejected(defect) ==
    /\ daemon = "serving"
    /\ BagCardinality(reqs) < MaxReqs
    /\ reqs' = Put(reqs, Request("bad_chat", "done", <<>>, FALSE, None,
                                 JsonRejectionStatus(defect), <<>>, <<>>))
    /\ UNCHANGED <<regVars, passVars, procVars>>

MetricsNext ==
    \/ ProxyNext
    \/ (\E f \in BOOLEAN : MetricsScrape(f)) /\ UNCHANGED <<bodyVars, wsVars, mainVars, fnVars>>
    \/ (\E d \in JsonDefects : JsonRejected(d)) /\ UNCHANGED <<bodyVars, wsVars, mainVars, fnVars>>

MetricsSpec == ProxyInit /\ [][MetricsNext]_vars

----------------------------------------------------------------------------
(* The chat request body: serde's view of ChatCompletionRequest.  A JSON   *)
(* object is a function from field names to values; a scalar is a pair of  *)
(* its JSON type and its text; an array is a sequence.                     *)

JString(v) == <<"string", v>>
JNumber(v) == <<"number", v>>
JBool(v)   == <<"bool", v>>
JNull      == <<"null", "">>

EmptyObject == [k \in {} |-> JNull]

Without(o, names) == [k \in DOMAIN o \ names |-> o[k]]

(* Bodies a client may send: each part present in some form, or absent.    *)
ModelParts  == {EmptyObject, "model" :> JString("g4"), "model" :> JNumber("4")}
StreamParts == {EmptyObject, "stream" :> JBool("true"), "stream" :> JBool("false"),
                "stream" :> JNull}
ExtraParts  == {EmptyObject, "temperature" :> JNumber("1")}
ClientMessages ==
    { ("role" :> JString("user")) @@ ("content" :> JString("hi")),
      ("role" :> JString("user")) @@ ("content" :> JString("hi")) @@ ("name" :> JString("bo")),
      ("role" :> JString("user")) }
MaxMessages == 2
MessagesParts ==
    {EmptyObject} \cup
    {"messages" :> ms : ms \in UNION {[1..n -> ClientMessages] : n \in 0..MaxMessages}}

(* Deserialize for ChatMessage: role and content are required strings;     *)
(* any other field of the message is ignored.                              *)
ChatMessageOk(m) ==
    /\ {"role", "content"} \subseteq DOMAIN m
    /\ m["role"][1] = "string" /\ m["content"][1] = "string"

ChatMessage(m) == [role |-> m["role"][2], content |-> m["content"][2]]

(* Deserialize for ChatCompletionRequest: None when serde rejects the      *)
(* body, else Some of the struct.                                          *)
ChatCompletionRequest(body) ==
    LET msgs == IF "messages" \in DOMAIN body THEN body["messages"] ELSE <<>>
    IN  IF \/ "model" \notin DOMAIN body
           \/ body["model"][1] # "string"
           \/ \E i \in DOMAIN msgs : ~ChatMessageOk(msgs[i])
        THEN None
        ELSE Some([model    |-> body["model"][2],
                   messages |-> [i \in DOMAIN msgs |-> ChatMessage(msgs[i])],
                   stream   |-> IF "stream" \in DOMAIN body /\ body["stream"][1] = "bool"
                                THEN Some(body["stream"][2]) ELSE None,
                   extra    |-> Without(body, {"model", "messages", "stream"})])

(* Serialize for ChatCompletionRequest, as `.json(&req_body)` writes it:   *)
(* the three named fields always, an Option that is None as null, then the *)
(* flattened extra fields.                                                 *)
SerializeRequest(req) ==
    ("model" :> JString(req.model))
    @@ ("messages" :> [i \in DOMAIN req.messages |->
                          ("role" :> JString(req.messages[i].role))
                          @@ ("content" :> JString(req.messages[i].content))])
    @@ ("stream" :> IF req.stream = None THEN JNull ELSE JBool(req.stream[1]))
    @@ req.extra

Outcome(forwarded, body) == [forwarded |-> forwarded, body |-> body]

(* post_chat_completions for one body, an endpoint being selectable: the   *)
(* extractor parses it and the handler POSTs `req_body` as JSON.           *)
ForwardBody ==
    /\ client_body # None /\ upstream_body = None
    /\ LET req == ChatCompletionRequest(client_body[1])
       IN  upstream_body' = IF req = None THEN Some(Outcome(FALSE, EmptyObject))
                            ELSE Some(Outcome(TRUE, SerializeRequest(req[1])))
    /\ UNCHANGED <<regVars, passVars, procVars, reqs, client_body, wsVars, mainVars, fnVars>>

BodyInit ==
    /\ InitWith({CfgEmpty}) /\ WsStart /\ MainStart /\ FnIdle
    /\ \E mo \in ModelParts, me \in MessagesParts, st \in StreamParts, ex \in ExtraParts :
          client_body = Some(mo @@ me @@ st @@ ex)
    /\ upstream_body = None

BodyNext == ForwardBody

BodySpec == BodyInit /\ [][BodyNext]_vars

----------------------------------------------------------------------------
(* The Portman WebSocket fabric (labman-ws-portman): /agent connections    *)
(* send envelopes, /observe connections subscribe and receive copies.      *)
(* Each handler step between two awaits is one action; the registries'     *)
(* locks are taken and released inside it.                                 *)

MaxFrames == 3      \* frames one agent connection sends
MaxSubs   == 1      \* subscribe commands one observer connection sends

(* MessageKind, by its snake_case wire name; any other name deserializes   *)
(* to Unknown (#[serde(other)]), which serializes as "unknown".            *)
MessageKinds ==
    {"register_agent", "heartbeat", "metrics", "offer_capacity",
     "directive_progress", "usage_report", "resource_profiles",
     "available_model_capacity", "preload_model", "evict_model",
     "assign_workload", "update_registry", "drain", "restart_agent",
     "ack", "error"}

MessageKind(name) == IF name \in MessageKinds THEN name ELSE "unknown"

(* Direction: "up"/"upstream" and "down"/"downstream"; None otherwise.     *)
Direction(name) ==
    CASE name \in {"up", "upstream"}     -> Some("up")
      [] name \in {"down", "downstream"} -> Some("down")
      [] OTHER                            -> None

(* A WebSocket frame from an agent: binary, or text with these JSON fields *)
(* (msg_id, kind and agent_id are Options: the field may be missing).      *)
Frame(text, msg_id, direction, kind, agent_id) ==
    [text |-> text, msg_id |-> msg_id, direction |-> direction, kind |-> kind,
     agent_id |-> agent_id]

FReg == Frame(TRUE, Some("m1"), "upstream", Some("register_agent"), Some("ag"))
FHb  == Frame(TRUE, Some("m2"), "up", Some("heartbeat"), None)
FOdd == Frame(TRUE, Some("m3"), "up", Some("mystery"), None)
FBad == Frame(TRUE, None, "up", Some("heartbeat"), None)
FBin == Frame(FALSE, None, "", None, None)

Envelope(msg_id, agent_id, direction, kind) ==
    [msg_id |-> msg_id, agent_id |-> agent_id, direction |-> direction, kind |-> kind]

(* serde_json::from_str::<Envelope>: msg_id, direction and kind are        *)
(* required; None when the frame does not parse.                           *)
ParseEnvelope(f) ==
    IF f.msg_id = None \/ f.kind = None \/ Direction(f.direction) = None THEN None
    ELSE Some(Envelope(f.msg_id[1], f.agent_id, Direction(f.direction)[1],
                       MessageKind(f.kind[1])))

(* What the server sends back on /agent.                                   *)
OkFrame    == [body |-> "ok", kind |-> "", code |-> ""]
ErrorFrame == [body |-> "envelope", kind |-> "error", code |-> "INVALID_ENVELOPE"]

(* ObserverState and the subscribe command that sets it.                   *)
ObserverState(kinds, filter) == [subscribed_kinds |-> kinds, kinds_filter |-> filter]

SubAll   == ObserverState({"all"}, None)
SubHb    == ObserverState({"by_kind"}, Some({"heartbeat"}))
SubBare  == ObserverState({"by_kind"}, None)
SubEmpty == ObserverState({"by_kind"}, Some({}))
SubBoth  == ObserverState({"all", "by_kind"}, Some({"unknown"}))

(* Messages on an observer's channel.                                      *)
EnvelopeMsg(env)  == [type |-> "envelope", body |-> env]
SubscribedMsg(st) == [type |-> "subscribed", body |-> st.subscribed_kinds]

Extend(f, k, v) == [x \in DOMAIN f \cup {k} |-> IF x = k THEN v ELSE f[x]]
Remove(f, k)    == [x \in DOMAIN f \ {k} |-> f[x]]

(* broadcast_to_observers, the loop body: does the observer with this      *)
(* state get the envelope of this kind?                                    *)
Delivers(state, kind_str) ==
    LET wants_all     == "all" \in state.subscribed_kinds
        wants_by_kind == "by_kind" \in state.subscribed_kinds
    IN  /\ wants_all \/ wants_by_kind
        /\ wants_by_kind =>
               /\ state.kinds_filter # None
               /\ kind_str \in state.kinds_filter[1]

(* broadcast_to_observers: the connections' channels afterwards.  The      *)
(* payload goes to the sender registered under each id that passes.        *)
broadcast_to_observers(env) ==
    [c \in ObsConns |->
        IF \E id \in DOMAIN observers :
              /\ Delivers(observers[id], env.kind)
              /\ id \in DOMAIN senders /\ senders[id] = c
        THEN [obs[c] EXCEPT !.queue = Append(@, EnvelopeMsg(env))]
        ELSE obs[c]]

coreVars == <<regVars, passVars, procVars, reqs, bodyVars, mainVars, fnVars>>

(* handle_ws_connection: PortmanSubscribers::add.                          *)
AgentConnect(a) ==
    /\ agent[a].state = "idle"
    /\ agent' = [agent EXCEPT ![a].state = "open", ![a].id = next_id]
    /\ subscribers' = Extend(subscribers, next_id, None)
    /\ next_id' = next_id + 1
    /\ UNCHANGED <<observers, senders, obs, coreVars>>

(* Mutant: the agent id is taken from any envelope that carries one.       *)
AgentFrameAnyKind(a, f) ==
    /\ agent[a].state = "open" /\ agent[a].pc = "recv"
    /\ Len(agent[a].frames) < MaxFrames
    /\ LET env == ParseEnvelope(f)
       IN  /\ agent' = [agent EXCEPT ![a].frames = Append(@, f),
                                     ![a].pc = IF f.text THEN "reply" ELSE "recv"]
           /\ IF f.text /\ env # None
              THEN /\ subscribers' =
                        IF env[1].agent_id # None /\ agent[a].id \in DOMAIN subscribers
                        THEN [subscribers EXCEPT ![agent[a].id] = env[1].agent_id]
                        ELSE subscribers
                   /\ obs' = broadcast_to_observers(env[1])
              ELSE UNCHANGED <<subscribers, obs>>
    /\ UNCHANGED <<next_id, observers, senders, coreVars>>

(* drive_ws_connection, one frame, up to the reply's send: a text frame    *)
(* that parses sets the agent id (RegisterAgent, up, with an agent_id) and *)
(* is broadcast; one that does not parse changes nothing; both are then    *)
(* answered.  A binary frame is logged and ignored.                        *)
AgentFrame(a, f) ==
    /\ agent[a].state = "open" /\ agent[a].pc = "recv"
    /\ Len(agent[a].frames) < MaxFrames
    /\ LET env == ParseEnvelope(f)
       IN  /\ agent' = [agent EXCEPT ![a].frames = Append(@, f),
                                     ![a].pc = IF f.text THEN "reply" ELSE "recv"]
           /\ IF f.text /\ env # None
              THEN /\ subscribers' =
                        IF /\ env[1].direction = "up" /\ env[1].kind = "register_agent"
                           /\ env[1].agent_id # None /\ agent[a].id \in DOMAIN subscribers
                        THEN [subscribers EXCEPT ![agent[a].id] = env[1].agent_id]
                        ELSE subscribers
                   /\ obs' = broadcast_to_observers(env[1])
              ELSE UNCHANGED <<subscribers, obs>>
    /\ UNCHANGED <<next_id, observers, senders, coreVars>>

(* Mutant: every text frame is acknowledged with "ok".                     *)
ReplyAlwaysOk(f) == OkFrame

(* The reply to the text frame just handled: "ok", or the error envelope.  *)
ReplyTo(f) == IF ParseEnvelope(f) # None THEN OkFrame ELSE ErrorFrame

AgentReply(a) ==
    /\ agent[a].state = "open" /\ agent[a].pc = "reply"
    /\ agent' = [agent EXCEPT ![a].replies = Append(@, ReplyTo(agent[a].frames[Len(agent[a].frames)])),
                              ![a].pc = "recv"]
    /\ UNCHANGED <<subscribers, next_id, observers, senders, obs, coreVars>>

(* Mutant: the connection ends and its registry entry stays.               *)
AgentCloseKeepsEntry(a) ==
    /\ agent[a].state = "open"
    /\ agent' = [agent EXCEPT ![a].state = "closed"]
    /\ UNCHANGED <<subscribers, next_id, observers, senders, obs, coreVars>>

(* The connection ends (close frame, read error or failed send):           *)
(* PortmanSubscribers::remove.                                             *)
AgentClose(a) ==
    /\ agent[a].state = "open"
    /\ agent' = [agent EXCEPT ![a].state = "closed"]
    /\ subscribers' = Remove(subscribers, agent[a].id)
    /\ UNCHANGED <<next_id, observers, senders, obs, coreVars>>

(* handle_observer_connection up to its read loop: the id is derived from  *)
(* the number of connected agents; Observers::add and register_sender      *)
(* insert under it.                                                        *)
ObserverConnect(c) ==
    /\ obs[c].state = "idle"
    /\ LET connection_id == Cardinality(DOMAIN subscribers) + ObserverIdBase
       IN  /\ obs' = [obs EXCEPT ![c].state = "open", ![c].id = connection_id]
           /\ observers' = Extend(observers, connection_id, ObserverState({}, None))
           /\ senders' = Extend(senders, connection_id, c)
    /\ UNCHANGED <<subscribers, next_id, agent, coreVars>>

SubsSent(c) == Len(SelectSeq(obs[c].queue, LAMBDA m : m.type = "subscribed"))

(* A subscribe command: set_subscription and the filter update change the  *)
(* entry under the connection's id if there is one; the acknowledgement    *)
(* goes on the connection's own channel.  `want` and `mark` remember the   *)
(* command and how many frames the agents had sent by then.  This is the   *)
(* command on its own: no other task reads the registry between the two    *)
(* writes (SubscribeKinds and SubscribeFilter take them one at a time).     *)
ObserverSubscribe(c, sub) ==
    /\ obs[c].state = "open"
    /\ SubsSent(c) < MaxSubs
    /\ observers' = IF obs[c].id \in DOMAIN observers
                    THEN [observers EXCEPT ![obs[c].id] = sub]
                    ELSE observers
    /\ obs' = [obs EXCEPT ![c].queue = Append(@, SubscribedMsg(sub)),
                          ![c].want = Some(sub),
                          ![c].mark = Len(agent["p1"].frames)]
    /\ UNCHANGED <<subscribers, next_id, senders, agent, coreVars>>

(* The observer's connection ends: Observers::remove drops the entry and   *)
(* the sender under its id.                                                *)
ObserverClose(c) ==
    /\ obs[c].state = "open"
    /\ obs' = [obs EXCEPT ![c].state = "closed"]
    /\ observers' = Remove(observers, obs[c].id)
    /\ senders' = Remove(senders, obs[c].id)
    /\ UNCHANGED <<subscribers, next_id, agent, coreVars>>

WsInit == InitWith({CfgEmpty}) /\ BodyIdle /\ WsStart /\ MainStart /\ FnIdle

(* Two observers, frames that parse.                                       *)
FanoutNext ==
    \/ \E a \in AgentConns : AgentConnect(a)
    \/ \E a \in AgentConns, f \in {FReg, FHb, FOdd} : AgentFrame(a, f)
    \/ \E a \in AgentConns : AgentReply(a)
    \/ \E a \in AgentConns : AgentClose(a)
    \/ \E c \in ObsConns : ObserverConnect(c)
    \/ \E c \in ObsConns, sub \in {SubAll, SubHb, SubBare, SubEmpty, SubBoth} :
          ObserverSubscribe(c, sub)
    \/ \E c \in ObsConns : ObserverClose(c)

FanoutSpec == WsInit /\ [][FanoutNext]_vars

(* One observer, every kind of frame.                                      *)
AgentNext ==
    \/ \E a \in AgentConns : AgentConnect(a)
    \/ \E a \in AgentConns, f \in {FReg, FHb, FOdd, FBad, FBin} : AgentFrame(a, f)
    \/ \E a \in AgentConns : AgentReply(a)
    \/ \E a \in AgentConns : AgentClose(a)
    \/ ObserverConnect("o1")
    \/ \E sub \in {SubAll, SubHb} : ObserverSubscribe("o1", sub)
    \/ ObserverClose("o1")

AgentSpec == WsInit /\ [][AgentNext]_vars

(* A discover command: the reply on the connection's own channel lists    *)
(* the registry's connections (id and agent id; the peer address is left  *)
(* out of the model).                                                      *)
MaxDiscovers == 1

AgentsMsg(subs) == [type |-> "agents", body |-> subs]

DiscoversSent(c) == Len(SelectSeq(obs[c].queue, LAMBDA m : m.type = "agents"))

ObserverDiscover(c) ==
    /\ obs[c].state = "open"
    /\ DiscoversSent(c) < MaxDiscovers
    /\ obs' = [obs EXCEPT ![c].queue = Append(@, AgentsMsg(subscribers))]
    /\ UNCHANGED <<subscribers, next_id, observers, senders, agent, coreVars>>

(* Two agents and one observer that discovers; the frames differ in        *)
(* direction, kind and agent id.                                           *)
MaxRegFrames == 2

FReg2    == Frame(TRUE, Some("m4"), "up", Some("register_agent"), Some("bg"))
FRegDown == Frame(TRUE, Some("m5"), "down", Some("register_agent"), Some("zz"))
FRegAnon == Frame(TRUE, Some("m6"), "up", Some("register_agent"), None)
FHbId    == Frame(TRUE, Some("m7"), "up", Some("heartbeat"), Some("zz"))

RegistryFrames == {FReg, FReg2, FRegDown, FRegAnon, FHbId}

RECURSIVE FramesSent(_)
FramesSent(as) ==
    IF as = {} THEN 0
    ELSE LET a == CHOOSE x \in as : TRUE
         IN  Len(agent[a].frames) + FramesSent(as \ {a})

RegistryNext ==
    \/ \E a \in AllAgentConns : AgentConnect(a)
    \/ \E a \in AllAgentConns, f \in RegistryFrames :
          FramesSent(AllAgentConns) < MaxRegFrames /\ AgentFrame(a, f)
    \/ \E a \in AllAgentConns : AgentReply(a)
    \/ \E a \in AllAgentConns : AgentClose(a)
    \/ ObserverConnect("o1")
    \/ ObserverDiscover("o1")
    \/ ObserverClose("o1")

RegistrySpec == WsInit /\ [][RegistryNext]_vars

(* The subscribe command, one registry write at a time.  The handler runs  *)
(* on a multi-threaded runtime: set_subscription takes the write lock,     *)
(* stores the kinds and releases it; the handler then takes the lock again *)
(* to store the filter.  A broadcast on another worker thread can take its *)
(* snapshot in between.  `pending` is the command being applied.           *)
SubscribeKinds(c, sub) ==
    /\ obs[c].state = "open"
    /\ SubsSent(c) < MaxSubs + 1
    /\ observers' = IF obs[c].id \in DOMAIN observers
                    THEN [observers EXCEPT ![obs[c].id].subscribed_kinds = sub.subscribed_kinds]
                    ELSE observers
    /\ obs' = [obs EXCEPT ![c].state = "subscribing", ![c].pending = Some(sub)]
    /\ UNCHANGED <<subscribers, next_id, senders, agent, coreVars>>

SubscribeFilter(c) ==
    /\ obs[c].state = "subscribing"
    /\ observers' = IF obs[c].id \in DOMAIN observers
                    THEN [observers EXCEPT ![obs[c].id].kinds_filter = obs[c].pending[1].kinds_filter]
                    ELSE observers
    /\ obs' = [obs EXCEPT ![c].state = "open",
                          ![c].queue = Append(@, SubscribedMsg(obs[c].pending[1])),
                          ![c].want = obs[c].pending,
                          ![c].pending = None,
                          ![c].mark = Len(agent["p1"].frames)]
    /\ UNCHANGED <<subscribers, next_id, senders, agent, coreVars>>

(* One agent, one observer that subscribes twice.                          *)
SubscribeNext ==
    \/ \E a \in AgentConns : AgentConnect(a)
    \/ \E a \in AgentConns, f \in {FReg, FHb} : AgentFrame(a, f)
    \/ \E a \in AgentConns : AgentReply(a)
    \/ \E a \in AgentConns : AgentClose(a)
    \/ ObserverConnect("o1")
    \/ \E sub \in {SubAll, SubHb, SubBoth} : SubscribeKinds("o1", sub)
    \/ SubscribeFilter("o1")
    \/ ObserverClose("o1")

SubscribeSpec == WsInit /\ [][SubscribeNext]_vars

----------------------------------------------------------------------------
(* The daemon process (labmand): main() from the command line to the exit  *)
(* status, and the three server tasks run_server_blocking spawns.          *)

(* resolve_bind_addr: --bind-addr if given (an error if it does not        *)
(* parse); otherwise the metrics port, an error when metrics are disabled. *)
resolve_bind_addr(c, cf) ==
    IF c.bind_addr # "none"
    THEN (IF c.bind_addr = "valid" THEN Some("bind_addr") ELSE None)
    ELSE IF cf.disable_metrics THEN None ELSE Some("metrics_port")

(* process::exit(code), or main returning (status 0).                      *)
Exit(code) == main' = [main EXCEPT !.pc = "exited", !.exit_code = Some(code)]

(* main: the configuration is loaded and validated.                        *)
LoadConfig ==
    /\ main.pc = "load"
    /\ IF conf.load # "ok" THEN Exit(1) ELSE main' = [main EXCEPT !.pc = "check_config"]
    /\ UNCHANGED <<cli, conf, tasks>>

(* main: --check-config returns here.                                      *)
CheckConfig ==
    /\ main.pc = "check_config"
    /\ IF cli.check_config THEN Exit(0) ELSE main' = [main EXCEPT !.pc = "print_config"]
    /\ UNCHANGED <<cli, conf, tasks>>

(* main: --print-config prints the summary; main goes on.                  *)
PrintConfig ==
    /\ main.pc = "print_config"
    /\ main' = [main EXCEPT !.pc = "resolve", !.printed = cli.print_config]
    /\ UNCHANGED <<cli, conf, tasks>>

(* main: the bind address; on success run_server_blocking is entered.      *)
ResolveBindAddr ==
    /\ main.pc = "resolve"
    /\ IF resolve_bind_addr(cli, conf) = None THEN Exit(1)
       ELSE main' = [main EXCEPT !.pc = "run", !.started = TRUE]
    /\ UNCHANGED <<cli, conf, tasks>>

(* A spawned server task binds its listener, or fails to: server.run and   *)
(* proxy.run return the error, the Portman task logs it and returns.       *)
TaskBind(s, ok) ==
    /\ daemon = "serving" /\ tasks[s] = "pending"
    /\ tasks' = [tasks EXCEPT ![s] = IF ok THEN "listening" ELSE "failed"]
    /\ UNCHANGED <<cli, conf, main>>

(* accept() fails in the loop of server.run or of proxy.run.               *)
TaskAcceptFail(s) ==
    /\ daemon = "serving" /\ tasks[s] = "listening" /\ s \in {"admin", "proxy"}
    /\ tasks' = [tasks EXCEPT ![s] = "failed"]
    /\ UNCHANGED <<cli, conf, main>>

(* The Portman server's graceful shutdown, once the signal was sent.       *)
PortmanShutdown ==
    /\ daemon = "serving" /\ tasks["portman"] = "listening" /\ main.shutdown_tx = "sent"
    /\ tasks' = [tasks EXCEPT !["portman"] = "finished"]
    /\ UNCHANGED <<cli, conf, main>>

Finished(s) == tasks[s] \in {"failed", "finished"}

(* select!: what block_on returns when the handle of s is ready (join      *)
(* errors, i.e. panics, aside): the proxy's Ok(Err(e)) becomes an error;   *)
(* the admin server's result is only looked at for a join error; the       *)
(* Portman task returns ().                                                *)
select_result(s) ==
    IF s = "proxy" /\ tasks[s] = "failed" THEN "err" ELSE "ok"

(* run_server_blocking: select! takes a finished task, sends the shutdown  *)
(* signal and the async block returns.                                     *)
Select(s) ==
    /\ main.pc = "run" /\ daemon = "serving" /\ Finished(s)
    /\ main' = [main EXCEPT !.pc = "returned", !.shutdown_tx = "sent",
                            !.result = select_result(s)]
    /\ UNCHANGED <<cli, conf, tasks>>

(* Mutant: the runtime's tasks outlive it.                                 *)
RuntimeLeak ==
    /\ main.pc = "returned"
    /\ main' = [main EXCEPT !.pc = "dropped"]
    /\ daemon' = "exited"
    /\ UNCHANGED <<regVars, passVars, task_pc, reqs, cli, conf, tasks>>

(* run_server_blocking returns: the runtime is dropped, and with it every  *)
(* task still on it (servers, their connections, the periodic task).       *)
RuntimeDrop ==
    /\ main.pc = "returned"
    /\ main' = [main EXCEPT !.pc = "dropped"]
    /\ tasks' = [s \in Servers |-> IF Finished(s) THEN tasks[s] ELSE "dropped"]
    /\ task_pc' = "stopped"
    /\ daemon' = "exited"
    /\ UNCHANGED <<regVars, passVars, reqs, cli, conf>>

(* main: process::exit(1) on an error, a plain return otherwise.           *)
ProcessExit ==
    /\ main.pc = "dropped"
    /\ Exit(IF main.result = "err" THEN 1 ELSE 0)
    /\ UNCHANGED <<cli, conf, tasks>>

Clis == {Cli(p, c, b) : p \in BOOLEAN, c \in BOOLEAN, b \in {"none", "valid", "invalid"}}

Confs == {Conf(l, d) : l \in {"ok", "unreadable", "invalid"}, d \in BOOLEAN}

DaemonInit ==
    /\ InitWith({CfgPlain}) /\ BodyIdle /\ WsStart /\ FnIdle
    /\ cli \in Clis
    /\ conf \in Confs
    /\ main = Main("load", None, FALSE, FALSE, "unsent", "none")
    /\ tasks = [s \in Servers |-> "pending"]

restVars == <<bodyVars, wsVars, fnVars>>

DaemonNext ==
    \/ LoadConfig /\ UNCHANGED <<regVars, passVars, procVars, reqs, restVars>>
    \/ CheckConfig /\ UNCHANGED <<regVars, passVars, procVars, reqs, restVars>>
    \/ PrintConfig /\ UNCHANGED <<regVars, passVars, procVars, reqs, restVars>>
    \/ ResolveBindAddr /\ UNCHANGED <<regVars, passVars, procVars, reqs, restVars>>
    \/ main.pc = "run" /\ StartupPass /\ UNCHANGED <<restVars, mainVars>>
    \/ Tick /\ UNCHANGED <<restVars, mainVars>>
    \/ LoopShutdown /\ UNCHANGED <<restVars, mainVars>>
    \/ (\E o \in {"2xx", "error"} : HealthProbe(o)) /\ UNCHANGED <<restVars, mainVars>>
    \/ /\ pass_pc = "discover"
       /\ DiscoverResponse("list", <<ModelDescriptor(G4, iter_order[pass_cursor])>>)
       /\ UNCHANGED <<restVars, mainVars>>
    \/ (\E s \in Servers, ok \in BOOLEAN : TaskBind(s, ok))
          /\ UNCHANGED <<regVars, passVars, procVars, reqs, restVars>>
    \/ (\E s \in Servers : TaskAcceptFail(s))
          /\ UNCHANGED <<regVars, passVars, procVars, reqs, restVars>>
    \/ PortmanShutdown /\ UNCHANGED <<regVars, passVars, procVars, reqs, restVars>>
    \/ (\E s \in Servers : Select(s))
          /\ UNCHANGED <<regVars, passVars, procVars, reqs, restVars>>
    \/ /\ tasks["admin"] = "listening"
       /\ \E f \in BOOLEAN : MetricsScrape(f)
       /\ UNCHANGED <<restVars, mainVars>>
    \/ RuntimeDrop /\ UNCHANGED restVars
    \/ ProcessExit /\ UNCHANGED <<regVars, passVars, procVars, reqs, restVars>>

DaemonSpec == DaemonInit /\ [][DaemonNext]_vars

----------------------------------------------------------------------------
(* EndpointRegistry::from_config on configurations that may be invalid.    *)
(* A base_url is a sequence of pieces: " " is whitespace, "http://" and    *)
(* "https://" are the schemes the code looks for.                          *)

MaxEndpoints == 2

UrlHttp   == <<"http://", "h/v1">>
UrlHttps  == <<"https://", "h/v1">>
UrlFtp    == <<"ftp://", "h/v1">>
UrlEmpty  == <<>>
UrlBlank  == <<" ">>
UrlPadded == <<" ", "http://", "h/v1", " ">>

BaseUrls == {UrlHttp, UrlHttps, UrlFtp, UrlEmpty, UrlBlank, UrlPadded}

RawEndpoint(n, u) ==
    [name |-> n, base_url |-> u, max_concurrent |-> None,
     models_include |-> None, models_exclude |-> None]

RawConfigs ==
    UNION {[1..k -> {RawEndpoint(n, u) : n \in {"a", "b"}, u \in BaseUrls}] :
              k \in 0..MaxEndpoints}

(* str::trim.                                                              *)
RECURSIVE trim_start(_)
trim_start(u) == IF u # <<>> /\ Head(u) = " " THEN trim_start(Tail(u)) ELSE u

RECURSIVE trim_end(_)
trim_end(u) ==
    IF u # <<>> /\ u[Len(u)] = " " THEN trim_end(SubSeq(u, 1, Len(u) - 1)) ELSE u

trim(u) == trim_end(trim_start(u))

starts_with(u, prefix) == u # <<>> /\ Head(u) = prefix

Ok(v)  == [ok |-> TRUE, value |-> v]
Err(e) == [ok |-> FALSE, value |-> [error |-> e]]

(* Mutant: any non-empty base_url is accepted.                             *)
build_core_endpoint_any_scheme(ep) ==
    LET base_url == trim(ep.base_url)
    IN  IF base_url = <<>> THEN Err("InvalidEndpointUrl")
        ELSE Ok([name |-> ep.name, base_url |-> base_url])

build_core_endpoint(ep) ==
    LET base_url == trim(ep.base_url)
    IN  IF base_url = <<>> THEN Err("InvalidEndpointUrl")
        ELSE IF ~(starts_with(base_url, "http://") \/ starts_with(base_url, "https://"))
             THEN Err("InvalidEndpointUrl")
        ELSE Ok([name |-> ep.name, base_url |-> base_url])

(* from_config's loop from position i on, `seen` the names inserted so     *)
(* far: the first duplicate name or rejected base_url is the error.        *)
RECURSIVE from_config_loop(_, _, _)
from_config_loop(c, i, seen) ==
    IF i > Len(c) THEN Ok(from_config(c))
    ELSE IF c[i].name \in seen THEN Err("DuplicateEndpointName")
    ELSE IF ~build_core_endpoint(c[i]).ok THEN build_core_endpoint(c[i])
    ELSE from_config_loop(c, i + 1, seen \cup {c[i].name})

from_config_result(c) == from_config_loop(c, 1, {})

BuildRegistry ==
    /\ arg # None /\ ret = None
    /\ ret' = Some(from_config_result(arg[1]))
    /\ UNCHANGED <<regVars, passVars, procVars, reqs, bodyVars, wsVars, mainVars, arg>>

BuildInit ==
    /\ InitWith({CfgEmpty}) /\ BodyIdle /\ WsStart /\ MainStart
    /\ arg \in {Some(c) : c \in RawConfigs}
    /\ ret = None

BuildNext == BuildRegistry

BuildSpec == BuildInit /\ [][BuildNext]_vars

----------------------------------------------------------------------------
(* to_node_capabilities on the registry as the passes leave it.            *)

CfgHuge == << EndpointConfig("a", Some(UsizeMax - 1), None, None),
              EndpointConfig("b", Some(2), None, None) >>

CapsLists(n) ==
    UpstreamLists(n) \cup {<<ModelDescriptor(G4, n), ModelDescriptor(G4, "twice")>>}

(* A caller holding the registry lock takes the capability snapshot.       *)
ReportCapabilities ==
    /\ daemon = "serving" /\ lock = "free"
    /\ ret' = Some(to_node_capabilities)
    /\ UNCHANGED <<regVars, passVars, procVars, reqs, bodyVars, wsVars, mainVars, arg>>

CapsInit ==
    /\ InitWith({CfgPlain, CfgGlobs, CfgHuge}) /\ BodyIdle /\ WsStart /\ MainStart /\ FnIdle

CapsNext ==
    \/ StartupPass /\ UNCHANGED <<bodyVars, wsVars, mainVars, fnVars>>
    \/ Tick /\ UNCHANGED <<bodyVars, wsVars, mainVars, fnVars>>
    \/ (\E o \in {"2xx", "error"} : HealthProbe(o))
          /\ UNCHANGED <<bodyVars, wsVars, mainVars, fnVars>>
    \/ /\ pass_pc = "discover"
       /\ \E l \in CapsLists(iter_order[pass_cursor]) : DiscoverResponse("list", l)
       /\ UNCHANGED <<bodyVars, wsVars, mainVars, fnVars>>
    \/ ReportCapabilities

CapsSpec == CapsInit /\ [][CapsNext]_vars

----------------------------------------------------------------------------
(* Discovery with filters: the passes over a configuration whose endpoints *)
(* have include and exclude patterns, the upstream answering any short     *)
(* list of models.  `arg` remembers the list the upstream last answered.   *)

MaxListLen == 2

CfgFilter == << EndpointConfig("a", None, Some(<< <<"g", "*">>, <<"*", "3">> >>),
                                       Some(<< <<"*", "4">>, <<"x", "9">> >>)),
                EndpointConfig("b", None, Some(<<>>), None) >>

CfgExclude == << EndpointConfig("a", None, None, Some(<< <<"l", "*">> >>)) >>

FilterLists(n) ==
    UNION {[1..k -> {ModelDescriptor(id, n) : id \in ModelIds}] : k \in 0..MaxListLen}

DiscoverList(list) ==
    /\ pass_pc = "discover"
    /\ DiscoverResponse("list", list)
    /\ arg' = Some([endpoint |-> iter_order[pass_cursor], list |-> list])
    /\ UNCHANGED ret

FilterInit ==
    /\ InitWith({CfgGlobs, CfgFilter, CfgExclude})
    /\ BodyIdle /\ WsStart /\ MainStart /\ FnIdle

FilterNext ==
    \/ StartupPass /\ UNCHANGED <<bodyVars, wsVars, mainVars, fnVars>>
    \/ Tick /\ UNCHANGED <<bodyVars, wsVars, mainVars, fnVars>>
    \/ (\E o \in {"2xx", "error"} : HealthProbe(o)) /\ UNCHANGED <<bodyVars, wsVars, mainVars, fnVars>>
    \/ /\ pass_pc = "discover"
       /\ \E l \in FilterLists(iter_order[pass_cursor]) : DiscoverList(l)
       /\ UNCHANGED <<bodyVars, wsVars, mainVars>>
    \/ DiscoverResponse("non2xx", <<>>) /\ UNCHANGED <<bodyVars, wsVars, mainVars, fnVars>>

FilterSpec == FilterInit /\ [][FilterNext]_vars

----------------------------------------------------------------------------
(* glob_match on every short pattern and text.                             *)

MaxPatLen  == 4
MaxTextLen == 3

GlobPatterns == UNION {[1..k -> {"a", "b", "*"}] : k \in 0..MaxPatLen}
GlobTexts    == UNION {[1..k -> {"a", "b"}] : k \in 0..MaxTextLen}

GlobMatch ==
    /\ arg # None /\ ret = None
    /\ ret' = Some(glob_match(arg[1].pattern, arg[1].text))
    /\ UNCHANGED <<regVars, passVars, procVars, reqs, bodyVars, wsVars, mainVars, arg>>

GlobInit ==
    /\ InitWith({CfgEmpty}) /\ BodyIdle /\ WsStart /\ MainStart
    /\ arg \in {Some([pattern |-> p, text |-> t]) : p \in GlobPatterns, t \in GlobTexts}
    /\ ret = None

GlobNext == GlobMatch

GlobSpec == GlobInit /\ [][GlobNext]_vars

----------------------------------------------------------------------------
(* Properties.                                                             *)

Ids(list) == {list[k].id : k \in DOMAIN list}

Listed(m) == IF m \in DOMAIN model_index
             THEN {model_index[m][i] : i \in DOMAIN model_index[m]}
             ELSE {}

Cap(n) == ConfigOf(n).max_concurrent

(* The requests the proxy has sent to endpoint n and not yet finished.     *)
InFlight(n) ==
    LET S == {r \in BagToSet(reqs) : r.ep = Some(n) /\ r.pc \in {"sending", "reading", "streaming"}}
    IN  BagCardinality([r \in S |-> reqs[r]])

(* A pass has run to its end and no later one has begun.                   *)
PassComplete == pass_pc = "none" /\ daemon # "startup"

(* C1: select_endpoint_for_model(m) returns an endpoint iff some endpoint  *)
(* listed in ModelIndex[m] is healthy, and the endpoint it returns is      *)
(* healthy and listed in ModelIndex[m].                                    *)
C1_SelectIffHealthyListed ==
    \A m \in ModelIds :
        LET sel == select_endpoint_for_model(m)
        IN  /\ (sel # None) <=> (\E n \in Listed(m) : healthy[n])
            /\ sel # None => (healthy[sel[1]] /\ sel[1] \in Listed(m))

C1_Witness ==
    /\ PassComplete
    /\ \E m1, m2 \in ModelIds :
          /\ select_endpoint_for_model(m1) # None
          /\ Listed(m2) # {}
          /\ select_endpoint_for_model(m2) = None

Saturated(n) == Cap(n) # None /\ active_requests[n] >= Cap(n)[1]

(* C2 (the claim as stated): select_endpoint_for_model(m) returns the      *)
(* first endpoint of ModelIndex[m] that is healthy and not saturated       *)
(* (max_concurrent set and active_requests >= max_concurrent), and None    *)
(* when there is none; it never returns a saturated endpoint.              *)
C2_SelectSkipsSaturated ==
    \A m \in ModelIds :
        LET names == IF m \in DOMAIN model_index THEN model_index[m] ELSE <<>>
            ok    == {i \in DOMAIN names : healthy[names[i]] /\ ~Saturated(names[i])}
            sel   == select_endpoint_for_model(m)
        IN  /\ sel # None => ~Saturated(sel[1])
            /\ sel = IF ok = {} THEN None
                     ELSE Some(names[CHOOSE i \in ok : \A j \in ok : i <= j])

(* C3 (the claim as stated): an endpoint's active_requests equals the      *)
(* number of proxy requests in flight on it.                               *)
C3_ActiveEqualsInFlight ==
    \A n \in DOMAIN active_requests : active_requests[n] = InFlight(n)

(* C4: every endpoint's active_requests is >= 0 and, when max_concurrent   *)
(* is set, at most max_concurrent, whatever the interleaving of proxy      *)
(* requests and control-loop passes.                                       *)
C4_ActiveWithinCap ==
    \A n \in DOMAIN active_requests :
        /\ active_requests[n] >= 0
        /\ Cap(n) # None => active_requests[n] <= Cap(n)[1]

C4_Witness ==
    /\ pass_owner = "periodic" /\ pass_pc = "health"
    /\ \E n \in DOMAIN active_requests : Cap(n) # None /\ InFlight(n) = 2

(* C5 (the claim as stated): with two endpoints, a configured before b,    *)
(* both advertising m: after a pass in which a's probe failed and b's      *)
(* succeeded selection for m returns b, and after a pass in which a's      *)
(* probe succeeded it returns a.                                           *)
C5_FailoverByConfigOrder ==
    (Len(cfg) = 2 /\ PassComplete) =>
        LET a == cfg[1].name
            b == cfg[2].name
        IN  \A m \in Ids(discovered_models[a]) \cap Ids(discovered_models[b]) :
               /\ (probe[a] # "2xx" /\ probe[b] = "2xx")
                     => select_endpoint_for_model(m) = Some(b)
               /\ probe[a] = "2xx" => select_endpoint_for_model(m) = Some(a)

(* C6: an endpoint whose probe returned non-2xx is unhealthy after it; an  *)
(* unhealthy endpoint is selected for no model; after a pass in which its  *)
(* probe returned 2xx and its discovery succeeded it is healthy and listed *)
(* for every model it advertises, and selection for such a model returns   *)
(* it unless an endpoint listed before it is healthy.                      *)
C6_UnhealthyNotSelectedThenBack ==
    \A n \in DOMAIN healthy :
        /\ probe[n] = "non2xx" => ~healthy[n]
        /\ ~healthy[n] => \A m \in ModelIds : select_endpoint_for_model(m) # Some(n)
        /\ (PassComplete /\ probe[n] = "2xx" /\ disc[n] = "list") =>
              /\ healthy[n]
              /\ \A m \in Ids(discovered_models[n]) :
                    LET names == model_index[m]
                        at    == {i \in DOMAIN names : names[i] = n}
                        sel   == select_endpoint_for_model(m)
                    IN  /\ at # {}
                        /\ sel # None
                        /\ \/ sel = Some(n)
                           \/ \E i \in DOMAIN names :
                                 /\ names[i] = sel[1] /\ healthy[names[i]]
                                 /\ \A j \in at : i < j

C6_Witness ==
    /\ PassComplete /\ pass_owner = "periodic"
    /\ \E n \in DOMAIN healthy :
          /\ probe[n] = "2xx" /\ disc[n] = "list"
          /\ \E m \in Ids(discovered_models[n]) :
                /\ select_endpoint_for_model(m) = Some(n)
                /\ \E o \in Listed(m) : o # n /\ probe[o] = "non2xx"

(* C7 (the claim as stated): while the daemon's servers are running the    *)
(* periodic control loop has not stopped.                                  *)
C7_LoopRunsWhileServing == daemon = "serving" => task_pc # "stopped"

(* C8 (the claim as stated): a request waiting for the registry lock       *)
(* eventually finds it free: no upstream call keeps the lock held forever. *)
C8_LockEventuallyFree ==
    (\E r \in BagToSet(reqs) : r.pc = "locking") ~> (lock = "free")

HealthLog(n) == SelectSeq(metrics_log, LAMBDA e : e.by = "health" /\ e.endpoint = n)

(* The health pass of the current (or last) pass has returned.             *)
HealthDone == pass_pc = "discover" \/ PassComplete

(* C9: a health pass probes every endpoint whatever the other probes gave; *)
(* an endpoint is healthy after its probe iff the probe returned 2xx, and  *)
(* its probe recorded exactly one call: a successful request-end (2xx),    *)
(* error health_http_status (non-2xx) or error health_http_error           *)
(* (transport error); the pass goes on to discovery.                       *)
C9_HealthPassCompletesForAll ==
    /\ HealthDone => \A n \in DOMAIN probe : probe[n] # "none"
    /\ \A n \in DOMAIN probe :
          IF probe[n] = "none" THEN HealthLog(n) = <<>>
          ELSE /\ healthy[n] <=> probe[n] = "2xx"
               /\ Len(HealthLog(n)) = 1
               /\ LET e == HealthLog(n)[1]
                  IN  CASE probe[n] = "2xx" ->
                              e.call = "record_request_end" /\ e.label = "success"
                        [] probe[n] = "non2xx" ->
                              e.call = "record_error" /\ e.label = "health_http_status"
                        [] probe[n] = "error" ->
                              e.call = "record_error" /\ e.label = "health_http_error"

C9_Witness ==
    /\ HealthDone /\ N = 2
    /\ probe[iter_order[1]] = "error"
    /\ probe[iter_order[2]] = "2xx"
    /\ healthy[iter_order[2]]

(* C10: a chat request for which selection returns None is answered 400    *)
(* with exactly one model_not_found error recorded, without any upstream   *)
(* being contacted and with the registry left as it was; with no endpoint  *)
(* configured that is every chat request, and GET /v1/models is answered   *)
(* 200 with an empty data list.                                            *)
C10_AbsentSelectionIs400 ==
    [][ \A r \in BagToSet(reqs) :
          (r.pc = "locking" /\ CopiesIn(r, reqs') < CopiesIn(r, reqs)) =>
             /\ (r.kind = "chat" /\ select_endpoint_for_model(r.model) = None) =>
                   /\ reqs' = Put(Take(reqs, r),
                                [r EXCEPT !.pc = "done", !.status = 400,
                                          !.log = <<Event("proxy", "record_error", "-", "model_not_found")>>])
                   /\ r.ep = None
                   /\ UNCHANGED regVars
             /\ (r.kind = "chat" /\ cfg = <<>>) =>
                   select_endpoint_for_model(r.model) = None
             /\ (r.kind = "models" /\ cfg = <<>>) =>
                   \E d \in BagToSet(reqs') :
                      /\ d = [r EXCEPT !.pc = "done", !.status = 200, !.data = <<>>, !.log = d.log]
                      /\ CopiesIn(d, reqs') > CopiesIn(d, reqs)
      ]_vars

C10_Witness ==
    /\ cfg = <<>>
    /\ \E r \in BagToSet(reqs) :
          r.kind = "chat" /\ r.pc = "done" /\ r.status = 400 /\ r.model = G4
    /\ \E r \in BagToSet(reqs) :
          r.kind = "models" /\ r.pc = "done" /\ r.status = 200 /\ r.data = <<>>

(* C11 (the claim as stated): the exposition a GET /metrics returns        *)
(* includes every observation recorded through the shared recorder: for    *)
(* each recorder call made so far it has the sample of that call's counter *)
(* with at least the number of calls made.                                 *)
C11_ScrapeShowsRecorded ==
    [][ \A m \in BagToSet(reqs') :
          (m.kind = "metrics" /\ CopiesIn(m, reqs') > CopiesIn(m, reqs)) =>
             /\ m.status = 200
             /\ LET seen == Counters(SharedRecorderCalls)
                IN  \A k \in DOMAIN seen :
                       \E s \in m.data : s[1] = k /\ s[2] >= seen[k]
      ]_vars

(* C12 (the claim as stated): a chat request whose body is not valid JSON  *)
(* or lacks a string `model` is answered 400 with exactly one bad_request  *)
(* error recorded, and no endpoint is selected for it.                     *)
C12_BadBodyIs400 ==
    \A r \in BagToSet(reqs) :
        r.kind = "bad_chat" =>
            /\ r.pc = "done" /\ r.status = 400 /\ r.ep = None
            /\ r.log = <<Event("proxy", "record_error", "-", "bad_request")>>

(* The request record r became d in this step.                             *)
Became(r, d) ==
    /\ CopiesIn(r, reqs') < CopiesIn(r, reqs)
    /\ CopiesIn(d, reqs') > CopiesIn(d, reqs)

(* C13: a request whose upstream send fails ends 502 with the one error    *)
(* upstream_request_error recorded; a buffered request whose body read     *)
(* fails ends 502 with the one error upstream_body_read_error; no step of  *)
(* a proxy handler changes healthy, discovered_models or the model index.  *)
C13_UpstreamFailureIs502 ==
    [][ /\ reqs' # reqs => UNCHANGED <<healthy, discovered_models, model_index>>
        /\ \A r \in BagToSet(reqs), d \in BagToSet(reqs') :
              (Became(r, d) /\ d.pc = "done") =>
                 /\ r.pc = "sending" =>
                       /\ d.status = 502
                       /\ d.log = <<Event("proxy", "record_error", r.ep[1], "upstream_request_error")>>
                 /\ (r.pc = "reading" /\ d.log # <<RequestEnd(r, r.status)>>) =>
                       /\ ~r.stream
                       /\ d.status = 502
                       /\ d.log = <<Event("proxy", "record_error", r.ep[1], "upstream_body_read_error")>>
      ]_vars

C13_Witness ==
    /\ \E n \in DOMAIN healthy : healthy[n] /\ discovered_models[n] # <<>>
    /\ \E r \in BagToSet(reqs) :
          /\ r.pc = "done" /\ r.status = 502
          /\ r.log[1].label = "upstream_request_error" /\ healthy[r.ep[1]]
    /\ \E r \in BagToSet(reqs) :
          /\ r.pc = "done" /\ r.status = 502
          /\ r.log[1].label = "upstream_body_read_error" /\ healthy[r.ep[1]]

(* C14 (the claim as stated): request_end is recorded for a request only   *)
(* once its upstream body has been forwarded (streaming) or read           *)
(* (buffered) to the end.                                                  *)
C14_RequestEndAfterBody ==
    \A r \in BagToSet(reqs) :
        (r.kind = "chat" /\ \E i \in DOMAIN r.log : r.log[i].call = "record_request_end")
            => r.pc = "done"

(* Two JSON objects with the same fields and, field by field, the same     *)
(* values; an array of objects is compared object by object.               *)
SameFields(x, y) == DOMAIN x = DOMAIN y /\ \A k \in DOMAIN x : x[k] = y[k]

SameBody(x, y) ==
    /\ DOMAIN x = DOMAIN y
    /\ \A k \in DOMAIN x \ {"messages"} : x[k] = y[k]
    /\ "messages" \in DOMAIN x =>
          /\ Len(x["messages"]) = Len(y["messages"])
          /\ \A i \in DOMAIN x["messages"] : SameFields(x["messages"][i], y["messages"][i])

(* C15 (the claim as stated): the JSON body POSTed to the upstream has     *)
(* exactly the fields of the client's body, with the same values, also     *)
(* inside each message.                                                    *)
C15_BodyForwardedUnchanged ==
    (upstream_body # None /\ upstream_body[1].forwarded) =>
        SameBody(upstream_body[1].body, client_body[1])

(* The fan-out rule as the specification words it.                         *)
FanOutRule(state, kind_str) ==
    \/ "all" \in state.subscribed_kinds
    \/ /\ "by_kind" \in state.subscribed_kinds
       /\ state.kinds_filter # None
       /\ kind_str \in state.kinds_filter[1]

(* Agent a handles, in this step, a text frame that parses to env.         *)
Broadcasts(a, env) ==
    /\ Len(agent'[a].frames) = Len(agent[a].frames) + 1
    /\ LET f == agent'[a].frames[Len(agent'[a].frames)]
       IN  f.text /\ ParseEnvelope(f) = Some(env)

EnvelopeKinds == {"register_agent", "heartbeat", "unknown"}

SentEnvelopes ==
    {Envelope(m, ag, "up", k) : m \in {"m1", "m2", "m3"}, ag \in {None, Some("ag")},
                                k \in EnvelopeKinds}

(* C16 (the claim as stated): an envelope E an agent sends is enqueued to  *)
(* a registered observer iff All is among its subscribed kinds, or ByKind  *)
(* is and its filter contains the name of E's kind.                        *)
C16_FanOutRule ==
    [][ \A a \in AgentConns, env \in SentEnvelopes :
          Broadcasts(a, env) =>
             \A id \in DOMAIN observers \cap DOMAIN senders :
                LET c == senders[id]
                IN  IF FanOutRule(observers[id], env.kind)
                    THEN obs'[c].queue = Append(obs[c].queue, EnvelopeMsg(env))
                    ELSE obs'[c].queue = obs[c].queue
      ]_vars

(* C17 (the claim as stated): an observer whose subscription is by_kind    *)
(* only, with no filter or an empty one, is sent no agent envelope.        *)
C17_BareByKindGetsNothing ==
    [][ \A c \in ObsConns :
          (obs[c].state = "open" /\ obs[c].want \in {Some(SubBare), Some(SubEmpty)})
             => (\A a \in AgentConns, env \in SentEnvelopes :
                    Broadcasts(a, env) => obs'[c].queue = obs[c].queue)
      ]_vars

(* C18 (the claim as stated): when an agent's envelope is broadcast, each  *)
(* connected observer whose subscription (the entry under its connection   *)
(* id) passes the broadcaster's test gets exactly one copy on its own      *)
(* channel.                                                                *)
C18_OneCopyOnOwnChannel ==
    [][ \A a \in AgentConns, env \in SentEnvelopes :
          Broadcasts(a, env) =>
             \A c \in ObsConns :
                (/\ obs[c].state = "open"
                 /\ obs[c].id \in DOMAIN observers
                 /\ Delivers(observers[obs[c].id], env.kind))
                   => obs'[c].queue = Append(obs[c].queue, EnvelopeMsg(env))
      ]_vars

(* The envelopes on a channel, and those the agent's frames parse to.      *)
RECURSIVE Bodies(_)
Bodies(q) == IF q = <<>> THEN <<>> ELSE <<Head(q).body>> \o Bodies(Tail(q))

EnvelopesOn(c) == Bodies(SelectSeq(obs[c].queue, LAMBDA m : m.type = "envelope"))

RECURSIVE Parsed(_)
Parsed(frames) ==
    IF frames = <<>> THEN <<>>
    ELSE (IF Head(frames).text /\ ParseEnvelope(Head(frames)) # None
          THEN <<ParseEnvelope(Head(frames))[1]>> ELSE <<>>) \o Parsed(Tail(frames))

(* C19 (the claim as stated): an observer that subscribed before the agent *)
(* sent its first frame and is still connected has received, in the order  *)
(* sent, the envelopes of the agent that match its subscription.           *)
C19_MatchingInOrder ==
    \A c \in ObsConns :
        (obs[c].state = "open" /\ obs[c].want # None /\ obs[c].mark = 0) =>
            EnvelopesOn(c) =
                SelectSeq(Parsed(agent["p1"].frames),
                          LAMBDA e : FanOutRule(obs[c].want[1], e.kind))

(* The replies the text frames among `frames` call for, in order.          *)
RECURSIVE RepliesTo(_)
RepliesTo(frames) ==
    IF frames = <<>> THEN <<>>
    ELSE (IF Head(frames).text
          THEN <<IF ParseEnvelope(Head(frames)) # None THEN OkFrame ELSE ErrorFrame>>
          ELSE <<>>) \o RepliesTo(Tail(frames))

(* The frames agent a has finished with: all but one still to be answered. *)
Answered(a) ==
    IF agent[a].pc = "reply" THEN SubSeq(agent[a].frames, 1, Len(agent[a].frames) - 1)
    ELSE agent[a].frames

RepliesMatchFrames == \A a \in AgentConns : agent[a].replies = RepliesTo(Answered(a))

(* C20: on /agent each text frame gets exactly one reply, the error        *)
(* envelope INVALID_ENVELOPE when it does not parse and `ok` when it does, *)
(* and binary frames get none; handling a frame leaves the connection      *)
(* open; a frame that parses is fanned out before its reply is sent, one   *)
(* that does not parse is not fanned out, and a binary frame changes no    *)
(* registry and no channel.                                                *)
C20_OneReplyPerTextFrame ==
    [][ /\ RepliesMatchFrames'
        /\ \A a \in AgentConns :
              Len(agent'[a].frames) = Len(agent[a].frames) + 1 =>
                 LET f == agent'[a].frames[Len(agent'[a].frames)]
                 IN  /\ agent'[a].state = "open"
                     /\ agent'[a].replies = agent[a].replies
                     /\ CASE ~f.text ->
                               /\ agent'[a].pc = "recv"
                               /\ UNCHANGED <<subscribers, next_id, observers, senders, obs>>
                          [] f.text /\ ParseEnvelope(f) = None ->
                               /\ agent'[a].pc = "reply"
                               /\ UNCHANGED <<subscribers, next_id, observers, senders, obs>>
                          [] f.text /\ ParseEnvelope(f) # None ->
                               /\ agent'[a].pc = "reply"
                               /\ obs' = broadcast_to_observers(ParseEnvelope(f)[1])
        /\ \A a \in AgentConns :
              Len(agent'[a].replies) > Len(agent[a].replies) =>
                 /\ agent[a].pc = "reply" /\ agent'[a].pc = "recv"
                 /\ agent'[a].state = "open"
                 /\ Len(agent'[a].replies) = Len(agent[a].replies) + 1
      ]_vars

C20_Witness ==
    /\ agent["p1"].state = "open" /\ agent["p1"].pc = "recv"
    /\ agent["p1"].frames = <<FBad, FBin, FHb>>
    /\ agent["p1"].replies = <<ErrorFrame, OkFrame>>
    /\ EnvelopesOn("o1") = <<ParseEnvelope(FHb)[1]>>

(* Is f a text frame that registers an agent: an envelope with direction   *)
(* up, kind register_agent and an agent_id?                                *)
Registers(f) ==
    /\ f.text /\ ParseEnvelope(f) # None
    /\ ParseEnvelope(f)[1].direction = "up"
    /\ ParseEnvelope(f)[1].kind = "register_agent"
    /\ ParseEnvelope(f)[1].agent_id # None

(* The agent id the registry holds for connection a (None when unset or    *)
(* when the connection has no entry).                                      *)
AgentIdOf(a) ==
    IF agent[a].state = "open" /\ agent[a].id \in DOMAIN subscribers
    THEN subscribers[agent[a].id] ELSE None

(* C21: a connection's agent_id is unset when it connects; a frame that    *)
(* registers an agent sets it to the frame's agent_id on the connection    *)
(* it arrived on; every other frame on that connection, and every step of  *)
(* another connection, leaves it as it was.                                *)
C21_AgentIdSetByRegisterOnly ==
    [][ \A a \in AllAgentConns :
          /\ (agent[a].state = "idle" /\ agent'[a].state = "open")
                => /\ agent'[a].id \in DOMAIN subscribers'
                   /\ subscribers'[agent'[a].id] = None
          /\ (agent[a].state = "open" /\ agent'[a].state = "open")
                => IF /\ Len(agent'[a].frames) = Len(agent[a].frames) + 1
                      /\ Registers(agent'[a].frames[Len(agent'[a].frames)])
                   THEN AgentIdOf(a)' =
                           agent'[a].frames[Len(agent'[a].frames)].agent_id
                   ELSE AgentIdOf(a)' = AgentIdOf(a)
      ]_vars

C21_Witness ==
    /\ agent["p1"].state = "open" /\ agent["p2"].state = "open"
    /\ agent["p1"].frames = <<FReg>> /\ AgentIdOf("p1") = Some("ag")
    /\ agent["p2"].frames = <<FHbId>> /\ AgentIdOf("p2") = None

(* The registry's entries are those of the open agent connections.         *)
OpenAgentIds == {agent[a].id : a \in {x \in AllAgentConns : agent[x].state = "open"}}

(* C22: the agent registry holds exactly the open agent connections, from  *)
(* the upgrade until the connection ends, and the reply to a discover      *)
(* lists exactly the connections open when it is made.                     *)
C22_RegistryIsOpenConnections ==
    [][ /\ DOMAIN subscribers' = OpenAgentIds'
        /\ \A c \in ObsConns :
              DiscoversSent(c)' > DiscoversSent(c)
                 => LET m == obs'[c].queue[Len(obs'[c].queue)]
                    IN  /\ m.type = "agents"
                        /\ DOMAIN m.body = OpenAgentIds
                        /\ \A a \in AllAgentConns :
                              agent[a].state = "open" => m.body[agent[a].id] = AgentIdOf(a)
      ]_vars

C22_Witness ==
    /\ agent["p1"].state = "closed" /\ agent["p2"].state = "open"
    /\ agent["p2"].frames = <<FReg2>>
    /\ obs["o1"].queue = <<AgentsMsg(agent["p2"].id :> Some("bg"))>>

(* C23: when a server's listener fails to bind or its accept loop fails,   *)
(* the process exits with a non-zero status.                               *)
C23_ListenerFailureExitsNonZero ==
    (main.pc = "exited" /\ \E s \in Servers : tasks[s] = "failed")
        => main.exit_code # Some(0)

(* C24: once a server task has finished, the process exits only after the  *)
(* shutdown signal was sent and the other server tasks and the control     *)
(* loop have stopped: none is left listening or waiting to bind.           *)
C24_OthersStoppedBeforeExit ==
    /\ (main.started /\ main.pc \in {"returned", "dropped", "exited"})
          => main.shutdown_tx = "sent" /\ \E s \in Servers : Finished(s)
    /\ (main.started /\ main.pc = "exited")
          => /\ \A s \in Servers : tasks[s] \in {"failed", "finished", "dropped"}
             /\ task_pc = "stopped"

C24_Witness ==
    /\ main.pc = "exited" /\ main.exit_code = Some(1)
    /\ tasks = [s \in Servers |-> CASE s = "proxy" -> "failed"
                                    [] s = "admin" -> "dropped"
                                    [] s = "portman" -> "finished"]
    /\ task_pc = "stopped"
    /\ \E r \in BagToSet(reqs) : r.kind = "metrics"

(* C27: with telemetry.disable_metrics = true the daemon still enters      *)
(* run_server_blocking, and every answer to GET /metrics is a 501.         *)
C27_MetricsDisabledStartsAnd501 ==
    (conf.disable_metrics /\ conf.load = "ok" /\ ~cli.check_config
       /\ cli.bind_addr # "invalid")
        => /\ ~(main.pc = "exited" /\ ~main.started)
           /\ \A r \in BagToSet(reqs) : r.kind = "metrics" => r.status = 501

(* C28: with --print-config no server binds a listener and no upstream is  *)
(* contacted.                                                              *)
C28_PrintConfigStartsNothing ==
    (cli.print_config /\ conf.load = "ok" /\ ~cli.check_config)
        => /\ \A s \in Servers : tasks[s] = "pending"
           /\ \A n \in DOMAIN probe : probe[n] = "none"

(* The registry the claim describes for configuration c: an entry per      *)
(* endpoint, unhealthy, without models or requests, and an empty index.    *)
FreshRegistry(reg, c) ==
    /\ DOMAIN reg.healthy = Names(c)
    /\ DOMAIN reg.discovered_models = Names(c)
    /\ DOMAIN reg.active_requests = Names(c)
    /\ \A n \in Names(c) :
          reg.healthy[n] = FALSE /\ reg.discovered_models[n] = <<>>
          /\ reg.active_requests[n] = 0
    /\ DOMAIN reg.model_index = {}

SharedName(c) == \E i, j \in DOMAIN c : i # j /\ c[i].name = c[j].name

(* C25 (the claim as stated): construction fails when two endpoints share  *)
(* a name or a base_url, as written, is empty or does not start with       *)
(* http:// or https://; otherwise it yields the fresh registry.            *)
C25_AsWritten ==
    ret # None =>
        LET c   == arg[1]
            bad == \/ SharedName(c)
                   \/ \E i \in DOMAIN c :
                         \/ c[i].base_url = <<>>
                         \/ ~(starts_with(c[i].base_url, "http://")
                               \/ starts_with(c[i].base_url, "https://"))
        IN  IF bad THEN ~ret[1].ok
            ELSE ret[1].ok /\ FreshRegistry(ret[1].value, c)

(* C25 (amended): the same, the base_url being looked at after its leading *)
(* and trailing whitespace is trimmed.                                     *)
C25_FromConfigValidates ==
    ret # None =>
        LET c   == arg[1]
            bad == \/ SharedName(c)
                   \/ \E i \in DOMAIN c :
                         \/ trim(c[i].base_url) = <<>>
                         \/ ~(starts_with(trim(c[i].base_url), "http://")
                               \/ starts_with(trim(c[i].base_url), "https://"))
        IN  IF bad THEN ~ret[1].ok
            ELSE ret[1].ok /\ FreshRegistry(ret[1].value, c)

C25_Witness ==
    /\ arg = Some(<<RawEndpoint("a", UrlPadded), RawEndpoint("b", UrlHttps)>>)
    /\ ret # None /\ ret[1].ok
    /\ DOMAIN ret[1].value.healthy = {"a", "b"}

(* The endpoints whose discovered models include id.                       *)
Advertisers(id) == {n \in Names(cfg) : id \in Ids(discovered_models[n])}

(* The sum of the caps that are set, over the configuration.               *)
RECURSIVE TotalCap(_)
TotalCap(i) ==
    IF i > Len(cfg) THEN 0
    ELSE (IF cfg[i].max_concurrent = None THEN 0 ELSE cfg[i].max_concurrent[1])
         + TotalCap(i + 1)

(* The first descriptor with this id, the endpoints taken in the order the *)
(* registry visits them.                                                   *)
FirstOccurrence(id) ==
    LET p    == CHOOSE q \in 1..Len(iter_order) :
                   /\ iter_order[q] \in Advertisers(id)
                   /\ \A r \in 1..(q - 1) : iter_order[r] \notin Advertisers(id)
        list == discovered_models[iter_order[p]]
        k    == CHOOSE x \in DOMAIN list :
                   list[x].id = id /\ \A y \in 1..(x - 1) : list[y].id # id
    IN  list[k]

CapsAsClaimed(caps) ==
    /\ \A i, j \in DOMAIN caps.models : i # j => caps.models[i].id # caps.models[j].id
    /\ Ids(caps.models) = UNION {Ids(discovered_models[n]) : n \in Names(cfg)}
    /\ \A i \in DOMAIN caps.models : caps.models[i] = FirstOccurrence(caps.models[i].id)
    /\ caps.endpoint_count = Len(cfg)
    /\ caps.max_concurrent_requests =
          IF \A i \in DOMAIN cfg : cfg[i].max_concurrent = None THEN None
          ELSE Some(IF TotalCap(1) > UsizeMax THEN UsizeMax ELSE TotalCap(1))

(* C26: the capability snapshot lists every discovered model id once, with *)
(* the descriptor of its first occurrence, the number of configured        *)
(* endpoints, and the saturating sum of the caps that are set (absent when *)
(* none is).                                                               *)
C26_CapabilitySnapshot ==
    [][ ret' # ret => ret' # None /\ CapsAsClaimed(ret'[1]) ]_vars

C26_Witness ==
    /\ cfg = CfgHuge /\ iter_order = <<"b", "a">>
    /\ discovered_models["a"] = <<ModelDescriptor(G4, "a"), ModelDescriptor(L3, "a")>>
    /\ discovered_models["b"] = <<ModelDescriptor(G4, "b"), ModelDescriptor(G4, "twice")>>
    /\ ret = Some([models |-> <<ModelDescriptor(G4, "b"), ModelDescriptor(L3, "a")>>,
                   endpoint_count |-> 2,
                   max_concurrent_requests |-> Some(UsizeMax)])

(* C29: after a discovery pass the index of a model id holds exactly the   *)
(* names of the endpoints whose discovered models include it, all of them  *)
(* endpoints of the registry, and an id no endpoint advertises has no      *)
(* entry.                                                                  *)
C29_IndexMatchesDiscovered ==
    PassComplete =>
        /\ \A m \in DOMAIN model_index :
              /\ {model_index[m][k] : k \in DOMAIN model_index[m]} = Advertisers(m)
              /\ Advertisers(m) # {}
              /\ Advertisers(m) \subseteq DOMAIN healthy
        /\ \A m \in ModelIds : Advertisers(m) # {} => m \in DOMAIN model_index

C29_Witness ==
    /\ cfg = CfgPlain
    /\ PassComplete /\ pass_owner = "periodic"
    /\ discovered_models["a"] = <<ModelDescriptor(G4, "a")>>
    /\ discovered_models["b"] = <<ModelDescriptor(G4, "b"), ModelDescriptor(L3, "b")>>
    /\ DOMAIN model_index = {G4, L3}
    /\ Len(model_index[G4]) = 2 /\ model_index[L3] = <<"b">>

(* Position of endpoint n in the configuration.                            *)
ConfigPos(n) == CHOOSE i \in DOMAIN cfg : cfg[i].name = n

(* C30: after a discovery pass the names listed for a model are in         *)
(* configuration order.                                                    *)
C30_IndexInConfigOrder ==
    PassComplete =>
        \A m \in DOMAIN model_index :
            \A i, j \in DOMAIN model_index[m] :
                i < j => ConfigPos(model_index[m][i]) < ConfigPos(model_index[m][j])

(* A handler takes the registry lock and reads: a request that awaited the *)
(* lock leaves that position.                                              *)
ReadsRegistry ==
    \E r \in BagToSet(reqs) :
        r.pc = "locking" /\ CopiesIn(r, reqs') < CopiesIn(r, reqs)

(* C31: select_endpoint_for_model and the capability snapshot never see a  *)
(* partially updated registry: when a proxy handler reads, no pass is in   *)
(* progress, so the health flags and discovered_models are those left by   *)
(* the last whole pass (or the initial ones), and the index is the one     *)
(* rebuilt from those discovered_models, never a cleared or half-built one.*)
C31_ReadersSeeWholePasses ==
    [][ReadsRegistry =>
          /\ pass_pc = "none"
          /\ lock = "free"
          /\ model_index = rebuild_model_index(discovered_models)
          /\ UNCHANGED <<healthy, discovered_models, model_index>>]_vars

(* A handler is waiting for the lock in the middle of a periodic tick's    *)
(* discovery, after another handler has been answered from the registry.   *)
C31_Witness ==
    /\ pass_owner = "periodic" /\ pass_pc = "discover" /\ lock = "loop"
    /\ model_index # EmptyIndex
    /\ \E r \in BagToSet(reqs) : r.pc = "locking" /\ r.kind = "chat"
    /\ \E r \in BagToSet(reqs) : r.pc = "sending"

(* C32: once an endpoint has been probed in a health pass, its             *)
(* consecutive_failures is 0 iff that probe, its most recent one, got a    *)
(* 2xx answer.                                                             *)
C32_FailuresZeroIffProbeOk ==
    \A n \in DOMAIN probe :
        probe[n] # "none" => (consecutive_failures[n] = 0 <=> probe[n] = "2xx")

(* Every endpoint has its outcome of the discovery pass: a healthy one was *)
(* asked for its models, an unhealthy one was skipped.                     *)
DiscoveryReachedAll ==
    \A n \in DOMAIN disc :
        IF healthy[n] THEN disc[n] \in {"list"} \cup DiscoveryFailures
        ELSE disc[n] = "skipped"

(* C33: in a discovery pass, an endpoint that is unhealthy, whose /models  *)
(* request fails or is answered non-2xx, or whose body does not parse      *)
(* (recorded as error model_discovery_parse) keeps its discovered_models;  *)
(* when such an endpoint's request is answered the pass goes on to the     *)
(* other endpoints and ends in success, with the index rebuilt and every   *)
(* endpoint reached.                                                       *)
C33_DiscoveryFailureKeepsModels ==
    [][/\ \A n \in DOMAIN healthy :
             (~healthy'[n] \/ disc'[n] \in DiscoveryFailures)
                 => discovered_models'[n] = discovered_models[n]
       /\ (pass_pc = "discover" /\ disc' # disc) =>
             LET n == iter_order[pass_cursor]
             IN  /\ disc'[n] = "parse_error" =>
                        metrics_log' = Append(metrics_log,
                            Event("discovery", "record_error", n, "model_discovery_parse"))
                 /\ \/ pass_pc' = "discover" /\ pass_cursor' > pass_cursor
                    \/ /\ pass_pc' = "none" /\ lock' = "free"
                       /\ DiscoveryReachedAll'
                       /\ model_index' = rebuild_model_index(discovered_models')]_vars

(* A periodic pass has ended in which a's body did not parse and b was     *)
(* discovered after it: a still has the models of the pass before.         *)
C33_Witness ==
    /\ cfg = CfgPlain /\ iter_order = <<"a", "b">>
    /\ PassComplete /\ pass_owner = "periodic"
    /\ disc = [a |-> "parse_error", b |-> "list"]
    /\ discovered_models["a"] = <<ModelDescriptor(G4, "a")>>
    /\ discovered_models["b"] = <<ModelDescriptor(G4, "b"), ModelDescriptor(L3, "b")>>
    /\ \E i \in DOMAIN metrics_log :
          metrics_log[i] = Event("discovery", "record_error", "a", "model_discovery_parse")

(* Does model id `id` match some pattern of the Option<list> `pats`?       *)
MatchesAny(pats, id) ==
    pats # None /\ \E i \in DOMAIN pats[1] : glob_match(pats[1][i], id)

(* The models of `list` that endpoint n is to keep, in the list's order.   *)
Restricted(n, list) ==
    SelectSeq(list, LAMBDA m :
        /\ ConfigOf(n).models_include = None \/ MatchesAny(ConfigOf(n).models_include, m.id)
        /\ ~MatchesAny(ConfigOf(n).models_exclude, m.id))

(* C34: after a successful discovery on an endpoint its discovered_models  *)
(* is the upstream list, in upstream order, restricted to the models that  *)
(* match some models_include pattern (all when there is none configured)   *)
(* and no models_exclude pattern.                                          *)
C34_DiscoveredIsFilteredList ==
    [][(pass_pc = "discover" /\ arg' # None
           /\ disc'[iter_order[pass_cursor]] = "list"
           /\ arg'[1].endpoint = iter_order[pass_cursor]) =>
          discovered_models'[iter_order[pass_cursor]]
              = Restricted(iter_order[pass_cursor], arg'[1].list)]_vars

(* Endpoint a (include g*, *3; exclude *4, x9) was answered <<g4, l3>>:    *)
(* g4 matches an include and an exclude pattern and is dropped.            *)
C34_Witness ==
    /\ cfg = CfgFilter /\ PassComplete
    /\ arg = Some([endpoint |-> "a",
                   list |-> <<ModelDescriptor(G4, "a"), ModelDescriptor(L3, "a")>>])
    /\ disc["a"] = "list"
    /\ discovered_models["a"] = <<ModelDescriptor(L3, "a")>>

(* The anchored regular expression of pattern p, every `*` read as `.*`    *)
(* and every other character as itself, matched against s.                 *)
RECURSIVE RegexMatch(_, _)
RegexMatch(p, s) ==
    IF p = <<>> THEN s = <<>>
    ELSE IF Head(p) = "*"
         THEN \E k \in 0..Len(s) : RegexMatch(Tail(p), SubSeq(s, k + 1, Len(s)))
         ELSE s # <<>> /\ Head(s) = Head(p) /\ RegexMatch(Tail(p), Tail(s))

(* C35: glob_match(p, s) is the match of the anchored regex of p against   *)
(* s; glob_match(s, s) and glob_match("*", s) are true, and a pattern      *)
(* without `*` matches the identical string only.                          *)
C35_GlobIsAnchoredRegex ==
    ret # None =>
        LET p == arg[1].pattern
            s == arg[1].text
        IN  /\ ret[1] = RegexMatch(p, s)
            /\ p = s => ret[1]
            /\ p = <<"*">> => ret[1]
            /\ (\A i \in DOMAIN p : p[i] # "*") => (ret[1] <=> p = s)

(* A pattern whose prefix and suffix cannot both fit in the text.          *)
C35_Witness ==
    /\ arg = Some([pattern |-> <<"a", "*", "a">>, text |-> <<"a">>])
    /\ ret = Some(FALSE)

(* The number of calls `call` the proxy handlers made on the shared        *)
(* recorder for the requests in the bag.                                   *)
ProxyCalls(call) ==
    LET log == BagLogs(reqs)
    IN  Cardinality({i \in DOMAIN log : log[i].by = "proxy" /\ log[i].call = call})

(* The proxy requests whose handler has not returned yet.                  *)
HandlersRunning ==
    LET S == {r \in BagToSet(reqs) : r.kind \in {"chat", "models"}
                                     /\ r.pc \in {"locking", "sending", "reading"}}
    IN  BagCardinality([r \in S |-> reqs[r]])

(* C36: the record_request_start calls made for proxy requests are as many *)
(* as the record_request_end calls made for them plus the requests in      *)
(* flight.                                                                 *)
C36_StartsEqualEndsPlusInFlight ==
    ProxyCalls("record_request_start") = ProxyCalls("record_request_end") + HandlersRunning

(* The connection ids handed out so far, per connection that has been      *)
(* accepted (open or since closed).                                        *)
AssignedIds ==
    [x \in {a \in AllAgentConns : agent[a].state # "idle"}
           \cup {c \in ObsConns : obs[c].state # "idle"} |->
        IF x \in AllAgentConns THEN agent[x].id ELSE obs[x].id]

(* C37: the connection ids of agents and observers are pairwise distinct:  *)
(* no id is held by two live connections or given again after a            *)
(* disconnect, and no observer has an agent's id.                          *)
C37_ConnectionIdsDistinct ==
    \A x, y \in DOMAIN AssignedIds : x # y => AssignedIds[x] # AssignedIds[y]

(* The observer's complete subscriptions around a subscribe command: the   *)
(* one in force before it (that of the last command, or the empty one of   *)
(* Observers::add) and the one the command asks for.                       *)
OldSubscription(c) ==
    IF obs[c].want = None THEN ObserverState({}, None) ELSE obs[c].want[1]

WholeSubscriptions(c) ==
    {OldSubscription(c)} \cup
        (IF obs[c].pending = None THEN {} ELSE {obs[c].pending[1]})

(* C38: a broadcast evaluates the fan-out rule for an observer against the *)
(* whole subscription before a subscribe command or the whole one after    *)
(* it, never the new kinds with the old filter.                            *)
C38_SubscribeIsAtomic ==
    [][ \A a \in AgentConns, env \in SentEnvelopes :
          Broadcasts(a, env) =>
             \A c \in ObsConns :
                (obs[c].state \in {"open", "subscribing"} /\ obs[c].id \in DOMAIN observers)
                    => observers[obs[c].id] \in WholeSubscriptions(c)
      ]_vars

(* A request that awaited the lock in this step's first state and the      *)
(* record its handler turned it into.                                      *)
Handled(r, d) ==
    /\ BagIn(r, reqs) /\ r.pc = "locking"
    /\ CopiesIn(r, reqs') < CopiesIn(r, reqs)
    /\ CopiesIn(d, reqs') > CopiesIn(d, reqs)
    /\ d.kind = r.kind /\ d.model = r.model /\ d.stream = r.stream

(* C39: an unhealthy endpoint keeps its discovered models through every    *)
(* step of the ticks; when a pass ends they are in the index under its     *)
(* name and in the capability listing, and GET /v1/models returns them.    *)
(* Selection never returns an unhealthy endpoint, so a chat request for a  *)
(* listed model whose advertisers are all unhealthy is answered 400.       *)
C39_UnhealthyStaysListed ==
    [][/\ \A n \in DOMAIN healthy :
             ~healthy'[n] => discovered_models'[n] = discovered_models[n]
       /\ (pass_pc # "none" /\ PassComplete') =>
             \A n \in DOMAIN healthy : \A id \in Ids(discovered_models'[n]) :
                 /\ id \in DOMAIN model_index'
                 /\ \E i \in DOMAIN model_index'[id] : model_index'[id][i] = n
                 /\ id \in Ids(to_node_capabilities.models)'
       /\ \A m \in ModelIds :
             select_endpoint_for_model(m) # None => healthy[select_endpoint_for_model(m)[1]]
       /\ \A r \in BagToSet(reqs), d \in BagToSet(reqs') :
             Handled(r, d) =>
                 /\ r.kind = "models" =>
                       \A n \in DOMAIN healthy :
                           Ids(discovered_models[n]) \subseteq Ids(d.data)
                 /\ (r.kind = "chat" /\ \A n \in Advertisers(r.model) : ~healthy[n])
                       => d.status = 400 /\ d.pc = "done"]_vars

(* After a periodic tick in which both endpoints failed their probe, g4 is *)
(* still discovered, indexed and listed to a client, and a chat request    *)
(* for it has been answered 400.                                           *)
C39_Witness ==
    /\ cfg = CfgPlain /\ PassComplete /\ pass_owner = "periodic"
    /\ healthy = [a |-> FALSE, b |-> FALSE]
    /\ \A n \in {"a", "b"} : discovered_models[n] = <<ModelDescriptor(G4, n)>>
    /\ G4 \in DOMAIN model_index /\ Len(model_index[G4]) = 2
    /\ \E r \in BagToSet(reqs) :
          r.kind = "models" /\ r.pc = "done" /\ G4 \in Ids(r.data)
    /\ \E r \in BagToSet(reqs) :
          r.kind = "chat" /\ r.model = G4 /\ r.pc = "done" /\ r.status = 400

(* Observer c is connected and the registry holds its subscription and its *)
(* sender under its connection id.                                         *)
Registered(c) ==
    /\ obs[c].state = "open"
    /\ obs[c].id \in DOMAIN observers
    /\ obs[c].id \in DOMAIN senders /\ senders[obs[c].id] = c

(* C40: when an observer disconnects, every other connected observer stays *)
(* registered with the subscription and the sender it had.                 *)
C40_CloseRemovesOnlyOwn ==
    [][ \A c, other \in ObsConns :
          (/\ c # other
           /\ obs[c].state = "open" /\ obs'[c].state = "closed"
           /\ Registered(other))
             => /\ Registered(other)'
                /\ observers'[obs[other].id] = observers[obs[other].id]
      ]_vars

====
